---------------------------- MODULE Spec2Model ----------------------------
(***************************************************************************)
(* Model of the layout-mapping transcription engine of vo_tabellen_gui.py. *)
(*                                                                         *)
(* A worksheet is a record                                                 *)
(*     [val, fmt, merged, max_row, max_column]                             *)
(* val[<<r,c>>] is what ws.cell(row=r, column=c).value reads, fmt[<<r,c>>] *)
(* the cell's number_format, merged the set of merge ranges                *)
(* <<min_row, min_col, max_row, max_col>>.  As in openpyxl, a non-anchor   *)
(* member of a merge range is a MergedCell: it reads None and assigning    *)
(* its value raises AttributeError.                                        *)
(*                                                                         *)
(* A cell value is a record [k, n, s]: k is "none", "int", "float" or      *)
(* "str"; n is the number (a float is kept in tenths); s is the text, a    *)
(* sequence of characters in which the literals the program looks for      *)
(* ("(C)opyright", "Stand:", month names, period tokens) are single        *)
(* elements.                                                               *)
(***************************************************************************)
EXTENDS Integers, Sequences, FiniteSets, TLC

VARIABLES
    ws,     \* the sheet being written (a layout copy, or the workbook copy)
    raw,    \* the raw input sheet
    op,     \* the operation that produced this state
    pre,    \* ws as it was when that operation started
    args,   \* the operation's arguments
    ret,    \* what the operation returned, or "AttributeError" when it raised
    n,      \* number of operations applied so far
    env,    \* a run's surroundings: the input folders and the output folder
    pc,     \* where run_processing stands
    status, \* the text of the status line
    events  \* the workbooks loaded, written and saved so far, in order

sheet_vars == <<ws, raw, op, pre, args, ret>>

run_vars == <<env, pc, status, events>>

vars == <<ws, raw, op, pre, args, ret, n, env, pc, status, events>>

\* No run is under way: the specifications of the single operations.
NoRun ==
    /\ env = <<>>
    /\ pc = <<>>
    /\ status = "Bereit."
    /\ events = <<>>

---------------------------------------------------------------------------
(* Cell values *)

None == [k |-> "none", n |-> 0, s |-> <<>>]

IntV(i) == [k |-> "int", n |-> i, s |-> <<>>]

\* a float, given in tenths: FloatV(25) is 2.5
FloatV(t) == [k |-> "float", n |-> t, s |-> <<>>]

StrV(s) == [k |-> "str", n |-> 0, s |-> s]

IsStr(v) == v.k = "str"

IsNumber(v) == v.k \in {"int", "float"}

\* v not in (None, "")
NonEmpty(v) == ~(v.k = "none" \/ (v.k = "str" /\ v.s = <<>>))

---------------------------------------------------------------------------
(* Text *)

Digits == {"0", "1", "2", "3", "4", "5", "6", "7", "8", "9"}

COPYRIGHT == "(C)opyright"

STAND == "Stand:"

GER_MONTHS ==
    {"Januar", "Februar", "März", "Maerz", "April", "Mai", "Juni", "Juli",
     "August", "September", "Oktober", "November", "Dezember"}

PERIOD_TOKENS ==
    {"Quartal", "Halbjahr", "Jahr", "Jahres", "Q1", "Q2", "Q3", "Q4", "H1",
     "H2", "JJ"}

Min(a, b) == IF a <= b THEN a ELSE b

Max(a, b) == IF a >= b THEN a ELSE b

\* the set's largest element, d for the empty set
MaxOf(S, d) == IF S = {} THEN d ELSE CHOOSE x \in S : \A y \in S : y <= x

MinOf(S, d) == IF S = {} THEN d ELSE CHOOSE x \in S : \A y \in S : x <= y

\* x in s
Contains(s, x) == \E i \in 1..Len(s) : s[i] = x

\* s.startswith(x)
StartsWith(s, x) == Len(s) >= 1 /\ s[1] = x

\* str.strip(): leading and trailing blanks removed
Strip(s) ==
    LET nb == {i \in 1..Len(s) : s[i] # " "}
    IN  IF nb = {} THEN <<>>
        ELSE LET lo == CHOOSE i \in nb : \A j \in nb : i <= j
                 hi == CHOOSE i \in nb : \A j \in nb : i >= j
             IN  SubSeq(s, lo, hi)

\* datetime.now().year, as the four characters it is formatted to
current_year == <<"2", "0", "2", "6">>

AllBlank(s, i, j) == \A k \in i..j : s[k] = " "

AllDigits(s, i, j) == \A k \in i..j : s[k] \in Digits

\* the end of a match of \(C\)opyright\s+\d{4} that starts at i, 0 if none
CopyrightMatchEnd(s, i) ==
    IF i <= Len(s) /\ s[i] = COPYRIGHT
    THEN LET ends == {j \in (i + 5)..Len(s) :
                         /\ AllBlank(s, i + 1, j - 4)
                         /\ AllDigits(s, j - 3, j)}
         IN  IF ends = {} THEN 0 ELSE CHOOSE j \in ends : TRUE
    ELSE 0

\* the same substitution for the pattern \(C\)opyright\s\d{4}
RECURSIVE sub_copyright_year_one_blank(_, _)
sub_copyright_year_one_blank(s, i) ==
    IF i > Len(s) THEN <<>>
    ELSE LET e == CopyrightMatchEnd(s, i)
         IN  IF e = i + 5
             THEN <<COPYRIGHT, " ">> \o current_year
                      \o sub_copyright_year_one_blank(s, e + 1)
             ELSE <<s[i]>> \o sub_copyright_year_one_blank(s, i + 1)

\* re.sub(r"\(C\)opyright\s+\d{4}", f"(C)opyright {current_year}", v):
\* every match, left to right, is replaced
RECURSIVE sub_copyright_year(_, _)
sub_copyright_year(s, i) ==
    IF i > Len(s) THEN <<>>
    ELSE LET e == CopyrightMatchEnd(s, i)
         IN  IF e = 0 THEN <<s[i]>> \o sub_copyright_year(s, i + 1)
             ELSE <<COPYRIGHT, " ">> \o current_year \o sub_copyright_year(s, e + 1)

---------------------------------------------------------------------------
(* Worksheets *)

Cells(w) == (1..w.max_row) \X (1..w.max_column)

\* ws.cell(row=r, column=c).value; a cell outside the used range reads None
Value(w, r, c) == IF <<r, c>> \in DOMAIN w.val THEN w.val[<<r, c>>] ELSE None

InRange(rg, r, c) == rg[1] <= r /\ r <= rg[3] /\ rg[2] <= c /\ c <= rg[4]

\* isinstance(ws.cell(row, col), MergedCell)
IsMergedCell(w, r, c) ==
    \E rg \in w.merged : InRange(rg, r, c) /\ ~(r = rg[1] /\ c = rg[2])

merged_bottom_right(w, row, col) ==
    IF \E rg \in w.merged : InRange(rg, row, col)
    THEN LET rg == CHOOSE x \in w.merged : InRange(x, row, col)
         IN  <<rg[3], rg[4]>>
    ELSE <<>>

\* (min_row, min_col) of the range holding (row, col); <<>> stands for None
_merged_top_left(w, row, col) ==
    IF \E rg \in w.merged : InRange(rg, row, col)
    THEN LET rg == CHOOSE x \in w.merged : InRange(x, row, col)
         IN  <<rg[1], rg[2]>>
    ELSE <<>>

\* ws.cell(row=r, column=c) creates a cell that does not exist yet, which
\* extends the used range (only the cells the program writes are tracked so)
Grow(w, r, c) ==
    LET mr == Max(w.max_row, r)
        mc == Max(w.max_column, c)
    IN  [w EXCEPT
            !.max_row = mr,
            !.max_column = mc,
            !.val = [x \in (1..mr) \X (1..mc) |->
                        IF x \in DOMAIN w.val THEN w.val[x] ELSE None],
            !.fmt = [x \in (1..mr) \X (1..mc) |->
                        IF x \in DOMAIN w.fmt THEN w.fmt[x] ELSE "General"]]

\* ws.cell(row=r, column=c).value = v on a cell that is no MergedCell
PutValue(w, r, c, v) ==
    IF <<r, c>> \in DOMAIN w.val
    THEN [w EXCEPT !.val[<<r, c>>] = v]
    ELSE [Grow(w, r, c) EXCEPT !.val[<<r, c>>] = v]

\* cell.number_format = f
PutFormat(w, r, c, f) ==
    IF <<r, c>> \in DOMAIN w.fmt
    THEN [w EXCEPT !.fmt[<<r, c>>] = f]
    ELSE [Grow(w, r, c) EXCEPT !.fmt[<<r, c>>] = f]

set_value_merge_safe(w, row, col, value) ==
    IF IsMergedCell(w, row, col)
    THEN LET tl == _merged_top_left(w, row, col)
         IN  IF tl = <<>> THEN w ELSE PutValue(w, tl[1], tl[2], value)
    ELSE PutValue(w, row, col, value)

\* no cell is taken for a secondary cell
never_secondary(w, row, col) == FALSE

get_merged_secondary_checker(w, row, col) ==
    \E rg \in w.merged : InRange(rg, row, col) /\ ~(row = rg[1] /\ col = rg[2])

---------------------------------------------------------------------------
(* Period text *)

search_rows_default == 40

search_cols_default == 12

\* where re.search(r"(20\d{2})", s) matches first, 0 if nowhere
YearStart(s) ==
    MinOf({i \in 1..(Len(s) - 3) :
              s[i] = "2" /\ s[i + 1] = "0" /\ AllDigits(s, i + 2, i + 3)}, 0)

\* re.fullmatch(r"\D*" + re.escape(year) + r"\D*", s)
FullMatchYear(s, year) ==
    \E j \in 1..(Len(s) - 3) :
        /\ SubSeq(s, j, j + 3) = year
        /\ \A k \in 1..Len(s) : (k < j \/ k > j + 3) => s[k] \notin Digits

HasMonthOrToken(s) ==
    \/ \E m \in GER_MONTHS : Contains(s, m)
    \/ \E tok \in PERIOD_TOKENS : Contains(s, tok)

\* the same without the test "if not m_year: continue"
PeriodHitsWithoutYear(v) ==
    IF ~IsStr(v) THEN <<>>
    ELSE LET s == Strip(v.s)
             y == YearStart(s)
         IN  IF s = <<>> THEN <<>>
             ELSE IF HasMonthOrToken(s) THEN <<s>>
             ELSE IF y # 0 /\ FullMatchYear(s, SubSeq(s, y, y + 3))
                  THEN <<(<<"Jahr", " ">> \o SubSeq(s, y, y + 3))>>
                  ELSE <<>>

\* what one cell of the scan appends to hits
PeriodHits(v) ==
    IF ~IsStr(v) THEN <<>>
    ELSE LET s == Strip(v.s)
             y == YearStart(s)
         IN  IF s = <<>> \/ y = 0 THEN <<>>
             ELSE LET year == SubSeq(s, y, y + 3)
                  IN  IF HasMonthOrToken(s) THEN <<s>>
                      ELSE IF FullMatchYear(s, year)
                           THEN <<(<<"Jahr", " ">> \o year)>>
                           ELSE <<>>

\* the scan in column-major order
RECURSIVE ScanPeriodByColumn(_, _, _, _)
ScanPeriodByColumn(w, max_r, max_c, k) ==
    IF k >= max_r * max_c THEN <<>>
    ELSE PeriodHits(Value(w, (k % max_r) + 1, (k \div max_r) + 1))
             \o ScanPeriodByColumn(w, max_r, max_c, k + 1)

\* for r in range(1, max_r + 1): for c in range(1, max_c + 1): ...
\* k counts the cells visited so far
RECURSIVE ScanPeriod(_, _, _, _)
ScanPeriod(w, max_r, max_c, k) ==
    IF k >= max_r * max_c THEN <<>>
    ELSE PeriodHits(Value(w, (k \div max_c) + 1, (k % max_c) + 1))
             \o ScanPeriod(w, max_r, max_c, k + 1)

\* returns the text found, None if hits is empty; hits is kept beside it
find_period_text(w, search_rows, search_cols) ==
    LET max_r == Min(search_rows, w.max_row)
        max_c == Min(search_cols, w.max_column)
        hits == ScanPeriod(w, max_r, max_c, 0)
    IN  [hits |-> hits,
         text |-> IF hits # <<>> THEN StrV(hits[Len(hits)]) ELSE None]

---------------------------------------------------------------------------
(* Footer: copyright year and as-of stamp *)

max_scan_col == 30

get_last_data_col(w, end_row) ==
    LET er == Max(1, end_row)
        max_c == Min(max_scan_col, w.max_column)
    IN  MaxOf({c \in 1..max_c : \E r \in 1..er : NonEmpty(Value(w, r, c))} \cup {1}, 1)

IsCopyrightText(v) == IsStr(v) /\ Contains(v.s, COPYRIGHT)

\* the row the bottom-up scan of column A stops at, 0 if there is none
_find_copyright_row(w) ==
    MaxOf({r \in 1..w.max_row : IsCopyrightText(Value(w, r, 1))}, 0)

\* isinstance(v, str) and v.strip().startswith("Stand:")
IsStampStart(v) == IsStr(v) /\ StartsWith(Strip(v.s), STAND)

\* isinstance(v, str) and "Stand:" in v
HasStand(v) == IsStr(v) /\ Contains(v.s, STAND)

\* if not stand_text
Falsy(v) == v.k = "none" \/ (v.k = "str" /\ v.s = <<>>)

\* The function as a whole.  Returns the sheet it leaves and
\* [err, copyright_row, stand_col]; err is "AttributeError" when the
\* assignment tgt.value = stand_text hits a MergedCell, and the sheet is then
\* left as it was at that statement.
update_footer_with_stand_and_copyright(w, stand_text) ==
    LET max_row == w.max_row
        max_col == w.max_column
        copyright_row == _find_copyright_row(w)
    IN  IF copyright_row = 0
        THEN [ws |-> w, ret |-> [err |-> "none", copyright_row |-> 0, stand_col |-> 0]]
        ELSE
        LET w1 == PutValue(w, copyright_row, 1,
                      StrV(sub_copyright_year(Value(w, copyright_row, 1).s, 1)))
            w2 == [w1 EXCEPT !.val =
                      [x \in DOMAIN w1.val |->
                          IF /\ x[1] <= max_row /\ x[2] <= max_col
                             /\ IsStampStart(w1.val[x])
                             /\ x[1] # copyright_row
                          THEN StrV(<<>>) ELSE w1.val[x]]]
        IN  IF Falsy(stand_text)
            THEN [ws |-> w2,
                  ret |-> [err |-> "none", copyright_row |-> copyright_row,
                           stand_col |-> 0]]
            ELSE
            LET found == {c \in 1..max_col : HasStand(Value(w2, copyright_row, c))}
                stand_col == IF found # {} THEN MinOf(found, 0)
                             ELSE get_last_data_col(w2, copyright_row - 1)
                r == [err |-> "none", copyright_row |-> copyright_row,
                      stand_col |-> stand_col]
            IN  IF IsMergedCell(w2, copyright_row, stand_col)
                THEN [ws |-> w2, ret |-> [r EXCEPT !.err = "AttributeError"]]
                ELSE [ws |-> PutFormat(PutValue(w2, copyright_row, stand_col, stand_text),
                                       copyright_row, stand_col,
                                       w2.fmt[<<copyright_row, 1>>]),
                      ret |-> r]

---------------------------------------------------------------------------
(* Number formats *)

\* "#\ ###\ ###\ ###\ ###\ ##0;-\ #\ ###\ ###\ ###\ ###\ ##0;0"
INT_FMT == "# ### ### ### ### ##0;- # ### ### ### ### ##0;0"

PCT_FMT == "0.0;-0.0;0"

\* v in ("-", "X")
IsSentinel(v) == IsStr(v) /\ (v.s = <<"-">> \/ v.s = <<"X">>)

\* the text without its ".", "," and " "
Unpunctuated(s) == SelectSeq(s, LAMBDA ch : ch \notin {".", ",", " "})

is_numeric_like(v) ==
    \/ IsNumber(v)
    \/ /\ IsStr(v)
       /\ \/ Strip(v.s) \in {<<"-">>, <<"X">>}
          \/ LET s2 == Unpunctuated(Strip(v.s))
             IN  s2 # <<>> /\ AllDigits(s2, 1, Len(s2))

\* int(v) of a float given in tenths: towards zero
truncate(t) == IF t >= 0 THEN t \div 10 ELSE -((-t) \div 10)

\* int(round(v)) of a float given in tenths: to the nearest integer, a tie
\* to the even one
round(t) ==
    LET q == t \div 10
        r == t % 10
    IN  IF r < 5 THEN q
        ELSE IF r > 5 THEN q + 1
        ELSE IF q % 2 = 0 THEN q ELSE q + 1

\* the loop body with is_numeric_like(v) in place of isinstance(v, (int, float))
FormatNumericLikeCell(w, x, skip_cols) ==
    LET v == w.val[x]
    IN  IF x[2] \in skip_cols \/ v = None THEN w
        ELSE IF is_numeric_like(v)
             THEN [w EXCEPT !.val[x] = IF v.k = "float" THEN IntV(round(v.n)) ELSE v,
                            !.fmt[x] = INT_FMT]
             ELSE w

\* the loop body of format_numeric_cells for one cell
FormatNumericCell(w, x, skip_cols) ==
    LET v == w.val[x]
    IN  IF x[2] \in skip_cols \/ v = None \/ IsSentinel(v) THEN w
        ELSE IF IsNumber(v)
             THEN [w EXCEPT !.val[x] = IF v.k = "float" THEN IntV(round(v.n)) ELSE v,
                            !.fmt[x] = INT_FMT]
             ELSE w

\* the same with skip_cols ignored
format_numeric_cells_no_skip(w, skip_cols) ==
    [w EXCEPT
        !.val = [x \in DOMAIN w.val |-> FormatNumericCell(w, x, {}).val[x]],
        !.fmt = [x \in DOMAIN w.fmt |-> FormatNumericCell(w, x, {}).fmt[x]]]

\* the cells are independent of each other, so the order of ws.iter_rows()
\* does not show
format_numeric_cells(w, skip_cols) ==
    [w EXCEPT
        !.val = [x \in DOMAIN w.val |-> FormatNumericCell(w, x, skip_cols).val[x]],
        !.fmt = [x \in DOMAIN w.fmt |-> FormatNumericCell(w, x, skip_cols).fmt[x]]]

format_percent_column(w, col_index) ==
    [w EXCEPT
        !.fmt = [x \in DOMAIN w.fmt |->
                    IF /\ x[2] = col_index
                       /\ w.val[x] # None
                       /\ ~IsSentinel(w.val[x])
                       /\ IsNumber(w.val[x])
                    THEN PCT_FMT ELSE w.fmt[x]]]

---------------------------------------------------------------------------
(* Marking the cells that hold 1 or 2 *)

NO_FILL == "none"

\* the fill of a cell; a cell that was never styled has none
FillOf(w, x) == IF x \in DOMAIN w.fill THEN w.fill[x] ELSE NO_FILL

\* isinstance(v, (int, float)) and v in (1, 2), or
\* isinstance(v, str) and v.strip() in ("1", "2")
IsOneOrTwo(v) ==
    \/ v.k = "int" /\ v.n \in {1, 2}
    \/ v.k = "float" /\ v.n \in {10, 20}
    \/ IsStr(v) /\ Strip(v.s) \in {<<"1">>, <<"2">>}

\* the same with the fill given to every cell of the row
mark_rows_with_1_or_2(w, col_index, fill) ==
    LET g == IF col_index > w.max_column THEN Grow(w, 1, col_index) ELSE w
    IN  [g EXCEPT
            !.fill = [x \in DOMAIN g.val |->
                         IF IsOneOrTwo(Value(w, x[1], col_index)) THEN fill
                         ELSE FillOf(w, x)]]

\* for r in range(1, ws.max_row + 1): ws.cell(row=r, column=col_index) is
\* read (and created when the sheet is narrower), and filled when its value
\* is 1 or 2
mark_cells_with_1_or_2(w, col_index, fill) ==
    LET g == IF col_index > w.max_column /\ w.max_row >= 1
             THEN Grow(w, 1, col_index) ELSE w
    IN  [g EXCEPT
            !.fill = [x \in DOMAIN g.val |->
                         IF x[2] = col_index /\ IsOneOrTwo(Value(w, x[1], col_index))
                         THEN fill ELSE FillOf(w, x)]]

---------------------------------------------------------------------------
(* Data block detection and the builders of tables 1, 2 and 3 *)

INTERNAL_HEADER_TEXT == StrV(<<"NUR FÜR DEN INTERNEN DIENSTGEBRAUCH">>)

max_search_rows == 80

\* the stripped text of the first cell holding "Stand:", rows read bottom
\* up and each row left to right; None if there is none
extract_stand_from_raw(w) ==
    LET rows == {r \in Max(w.max_row - max_search_rows, 1)..w.max_row :
                    \E c \in 1..w.max_column : HasStand(Value(w, r, c))}
    IN  IF rows = {} THEN None
        ELSE LET r == MaxOf(rows, 0)
                 c == MinOf({k \in 1..w.max_column : HasStand(Value(w, r, k))}, 0)
             IN  StrV(Strip(Value(w, r, c).s))

\* first row with a numeric-like cell in columns first_col.., else 1
FirstDataRow(w, first_col) ==
    MinOf({r \in 1..w.max_row :
              \E c \in first_col..w.max_column : is_numeric_like(Value(w, r, c))}, 1)

\* first row whose column A text starts with "-", else max_row + 1
FootnoteStart(w) ==
    MinOf({r \in 1..w.max_row :
              IsStr(Value(w, r, 1)) /\ StartsWith(Strip(Value(w, r, 1).s), "-")},
          w.max_row + 1)

\* returns <<first_data, footnote_start>>
detect_data_and_footer_tab1(sheet) == <<FirstDataRow(sheet, 2), FootnoteStart(sheet)>>

detect_data_and_footer_tab2_3(sheet) == <<FirstDataRow(sheet, 3), FootnoteStart(sheet)>>

\* n_rows with max() where the code has min()
n_rows_longer(fdr_raw, ft_raw, fdr_out, ft_out) ==
    Max(Max(0, ft_raw - fdr_raw), Max(0, ft_out - fdr_out))

\* n_rows = min(max(0, ft_raw - fdr_raw), max(0, ft_out - fdr_out))
n_rows(fdr_raw, ft_raw, fdr_out, ft_out) ==
    Min(Max(0, ft_raw - fdr_raw), Max(0, ft_out - fdr_out))

\* the transcription loops: for off in range(n): for c in range(c1, c2 + 1):
\* skip a secondary cell, else write raw's value merge-safely.
\* k counts the cells visited so far; each step acts on the sheet the step
\* before has left.
RECURSIVE Transcribe(_, _, _, _, _, _, _, _)
Transcribe(w_out, w_raw, fdr_raw, fdr_out, nr, c1, c2, k) ==
    IF c2 < c1 \/ k >= nr * (c2 - c1 + 1) THEN w_out
    ELSE LET off == k \div (c2 - c1 + 1)
             c == c1 + (k % (c2 - c1 + 1))
             r_raw == fdr_raw + off
             r_out == fdr_out + off
             Step(w) == IF get_merged_secondary_checker(w, r_out, c) THEN w
                        ELSE set_value_merge_safe(w, r_out, c, Value(w_raw, r_raw, c))
         IN  CHOOSE res \in {Transcribe(w1, w_raw, fdr_raw, fdr_out, nr, c1, c2, k + 1) :
                                w1 \in {Step(w_out)}} : TRUE

\* What both builders do after the header cells are written: detect the
\* blocks, transcribe, normalise the footer, format.  w0 is the layout as
\* loaded, w1 the layout with its header cells written.  The result keeps
\* the locals the claims speak about; err is "AttributeError" when the
\* footer normalisation raised, and no workbook is returned then.
BuildFrom(w_raw, w0, w1, period, det_raw, det_out, start_col, pct_col) ==
    LET stand_text == extract_stand_from_raw(w_raw)
        nr == n_rows(det_raw[1], det_raw[2], det_out[1], det_out[2])
        locals(w2, foot) ==
            [err |-> foot.ret.err, period_text |-> period[1],
             period_row |-> period[2], stand_text |-> stand_text,
             fdr_raw |-> det_raw[1], ft_raw |-> det_raw[2],
             fdr_out |-> det_out[1], ft_out |-> det_out[2], n_rows |-> nr,
             start_col |-> start_col, pct_col |-> pct_col, layout |-> w0,
             headed |-> w1, transcribed |-> w2]
        Formats(w2, foot) ==
            IF foot.ret.err # "none"
            THEN [ws |-> foot.ws, ret |-> locals(w2, foot)]
            ELSE CHOOSE res \in {[ws |-> format_numeric_cells(w3, {pct_col}),
                                  ret |-> locals(w2, foot)] :
                                    w3 \in {format_percent_column(foot.ws, pct_col)}} : TRUE
        Footer(w2) ==
            CHOOSE res \in {Formats(w2, foot) :
                               foot \in {update_footer_with_stand_and_copyright(
                                             w2, stand_text)}} : TRUE
    IN  CHOOSE res \in {Footer(w2) :
                           w2 \in {Transcribe(w1, w_raw, det_raw[1], det_out[1], nr,
                                              start_col, w1.max_column, 0)}} : TRUE

build_table1_workbook(w_raw, layout, internal_layout) ==
    LET period_text == find_period_text(w_raw, search_rows_default,
                                        search_cols_default).text
        period_row == IF internal_layout THEN 5 ELSE 3
        w1 == IF internal_layout
              THEN set_value_merge_safe(
                       set_value_merge_safe(layout, 1, 1, INTERNAL_HEADER_TEXT),
                       5, 1, period_text)
              ELSE set_value_merge_safe(layout, 3, 1, period_text)
    IN  CHOOSE res \in {BuildFrom(w_raw, layout, w, <<p, period_row>>, d_raw, d_out, 1, 9) :
                           w \in {w1}, p \in {period_text},
                           d_raw \in {detect_data_and_footer_tab1(w_raw)},
                           d_out \in {detect_data_and_footer_tab1(w1)}} : TRUE

build_table2_3_workbook(table_no, w_raw, layout, internal_layout) ==
    LET period_text == find_period_text(w_raw, search_rows_default,
                                        search_cols_default).text
        is_year == /\ IsStr(period_text)
                   /\ Len(Strip(period_text.s)) >= 2
                   /\ SubSeq(Strip(period_text.s), 1, 2) = <<"Jahr", " ">>
        period_row == IF internal_layout
                      THEN (IF table_no = 2 THEN 6 ELSE 5)
                      ELSE IF table_no = 2
                           THEN (IF is_year THEN 6 ELSE 4)
                           ELSE (IF is_year THEN 5 ELSE 3)
        w1 == IF internal_layout
              THEN set_value_merge_safe(
                       set_value_merge_safe(layout, 1, 1, INTERNAL_HEADER_TEXT),
                       period_row, 1, period_text)
              ELSE set_value_merge_safe(layout, period_row, 1, period_text)
    IN  CHOOSE res \in {BuildFrom(w_raw, layout, w, <<p, period_row>>, d_raw, d_out, 2, 7) :
                           w \in {w1}, p \in {period_text},
                           d_raw \in {detect_data_and_footer_tab2_3(w_raw)},
                           d_out \in {detect_data_and_footer_tab2_3(w1)}} : TRUE

---------------------------------------------------------------------------
(* The builder of table 5: one block of the raw sheet per worksheet *)

BAYERN == "Bayern"

\* re.match(r"Bayern\s+\d\)", v.strip()) on a text
IsBlockStart(v) ==
    /\ IsStr(v)
    /\ LET s == Strip(v.s)
       IN  /\ StartsWith(s, BAYERN)
           /\ \E j \in 3..(Len(s) - 1) :
                 /\ AllBlank(s, 2, j - 1)
                 /\ s[j] \in Digits
                 /\ s[j + 1] = ")"

\* the rows of column B that open a block, in ascending order
Starts(w_raw) ==
    LET S == {r \in 1..w_raw.max_row : IsBlockStart(Value(w_raw, r, 2))}
        RECURSIVE Sorted(_)
        Sorted(T) == IF T = {} THEN <<>>
                     ELSE <<MinOf(T, 0)>> \o Sorted(T \ {MinOf(T, 0)})
    IN  Sorted(S)

last_nonempty_cols == 24

\* block i runs from its start to the last row before the next start (or
\* the sheet's end) that holds anything in columns 1..24
block_ranges(w_raw) ==
    LET starts == Starts(w_raw)
    IN  [i \in 1..Len(starts) |->
            LET start == starts[i]
                end == IF i < Len(starts) THEN starts[i + 1] - 1 ELSE w_raw.max_row
                filled == {rr \in start..end :
                              \E c \in 1..last_nonempty_cols :
                                  NonEmpty(Value(w_raw, rr, c))}
            IN  <<start, MaxOf(filled, start)>>]

\* while raw_r <= end_row and out_r <= ws_out.max_row: copy the columns
\* c1..c2 of one row, then step both rows.  Returns the sheet and out_r.
RECURSIVE FillRows(_, _, _, _, _, _, _)
FillRows(w_out, w_raw, raw_r, out_r, end_row, c1, c2) ==
    IF ~(raw_r <= end_row /\ out_r <= w_out.max_row)
    THEN [ws |-> w_out, out_r |-> out_r]
    ELSE CHOOSE res \in {FillRows(w1, w_raw, raw_r + 1, out_r + 1, end_row, c1, c2) :
                            w1 \in {Transcribe(w_out, w_raw, raw_r, out_r, 1, c1, c2, 0)}} :
             TRUE

\* for rr in range(first, out_r): for cc in (9, 10): clear the cell unless
\* it is a secondary cell of a merge range
RECURSIVE ClearAnalytic(_, _, _, _)
ClearAnalytic(w, first, out_r, k) ==
    IF k >= 2 * (out_r - first) THEN w
    ELSE LET rr == first + (k \div 2)
             cc == 9 + (k % 2)
             Step(x) == IF get_merged_secondary_checker(x, rr, cc) THEN x
                        ELSE set_value_merge_safe(x, rr, cc, None)
         IN  CHOOSE res \in {ClearAnalytic(w1, first, out_r, k + 1) :
                                w1 \in {Step(w)}} : TRUE

fill_sheet_from_block(w_out, w_raw, start_row, end_row, internal_layout, is_jj) ==
    LET first_data_out ==
            MinOf({r \in 1..w_out.max_row : is_numeric_like(Value(w_out, r, 3))}, 0)
        c2 == IF internal_layout \/ is_jj THEN 10 ELSE 8
    IN  IF first_data_out = 0 THEN w_out
        ELSE CHOOSE res \in
                 {IF ~internal_layout /\ ~is_jj
                  THEN ClearAnalytic(f.ws, first_data_out, f.out_r, 0)
                  ELSE f.ws :
                     f \in {FillRows(w_out, w_raw, start_row, first_data_out,
                                     end_row, 3, c2)}} : TRUE

\* what the loop body does to worksheet i, which has a block
BuildSheet5(w, w_raw, block, period_text, stand_text, internal_layout, is_jj) ==
    LET w1 == IF internal_layout
              THEN set_value_merge_safe(
                       set_value_merge_safe(w, 1, 1, INTERNAL_HEADER_TEXT),
                       5, 1, period_text)
              ELSE set_value_merge_safe(w, 3, 1, period_text)
        Formats(w2, foot) ==
            IF foot.ret.err # "none"
            THEN [ws |-> foot.ws, err |-> foot.ret.err, filled |-> w2]
            ELSE CHOOSE res \in {[ws |-> format_numeric_cells(w3, {8}), err |-> "none",
                                  filled |-> w2] :
                                    w3 \in {format_percent_column(foot.ws, 8)}} : TRUE
        Footer(w2) ==
            CHOOSE res \in {Formats(w2, foot) :
                               foot \in {update_footer_with_stand_and_copyright(
                                             w2, stand_text)}} : TRUE
    IN  CHOOSE res \in {Footer(w2) :
                           w2 \in {fill_sheet_from_block(w1, w_raw, block[1], block[2],
                                                         internal_layout, is_jj)}} : TRUE

\* The worksheets of the layout workbook are worked on in order, one block
\* each; a worksheet without a block stays as loaded, and the first error
\* ends the function (the worksheets after it stay as loaded too).
RECURSIVE BuildSheets5(_, _, _, _, _, _, _, _)
BuildSheets5(acc, w_raw, blocks, period_text, stand_text, internal_layout, is_jj, i) ==
    IF i > Len(blocks) \/ i > Len(acc.sheets) THEN acc
    ELSE CHOOSE res \in
             {IF b.err # "none"
              THEN [sheets |-> [acc.sheets EXCEPT ![i] = b.ws], err |-> b.err,
                    filled |-> [acc.filled EXCEPT ![i] = b.filled]]
              ELSE BuildSheets5([sheets |-> [acc.sheets EXCEPT ![i] = b.ws],
                                 err |-> "none",
                                 filled |-> [acc.filled EXCEPT ![i] = b.filled]],
                                w_raw, blocks, period_text, stand_text,
                                internal_layout, is_jj, i + 1) :
                 b \in {BuildSheet5(acc.sheets[i], w_raw, blocks[i], period_text,
                                    stand_text, internal_layout, is_jj)}} : TRUE

\* layout is the sequence of the layout workbook's worksheets; the function
\* returns the workbook: ws is its first worksheet, ret.sheets all of
\* them, ret.filled the worksheets as they were before footer and formats
build_table5_workbook(w_raw, layout, internal_layout, is_jj) ==
    LET period_text == find_period_text(w_raw, search_rows_default,
                                        search_cols_default).text
        stand_text == extract_stand_from_raw(w_raw)
        Result(b, p, s, bl) ==
            [ws |-> b.sheets[1],
             ret |-> [err |-> b.err, period_text |-> p, stand_text |-> s,
                      blocks |-> bl, pct_col |-> 8, layout |-> layout,
                      sheets |-> b.sheets, filled |-> b.filled]]
        Blocks(p, s, bl) ==
            CHOOSE res \in
                {Result(b, p, s, bl) :
                    b \in {BuildSheets5([sheets |-> layout, err |-> "none",
                                         filled |-> layout],
                                        w_raw, bl, p, s, internal_layout, is_jj, 1)}} :
                TRUE
    IN  CHOOSE res \in {Blocks(p, s, bl) :
                           p \in {period_text}, s \in {stand_text},
                           bl \in {block_ranges(w_raw)}} : TRUE

---------------------------------------------------------------------------
(* Merge-safe writing on its own: any sheet, any merge ranges, any cell *)

NRows == 2

NCols == 3

MaxMerges == 1

MaxWrites == 2

\* the rectangles of more than one cell inside an r x c grid
Rectangles(r, c) ==
    {rg \in (1..r) \X (1..c) \X (1..r) \X (1..c) :
        rg[1] <= rg[3] /\ rg[2] <= rg[4] /\ (rg[1] < rg[3] \/ rg[2] < rg[4])}

Disjoint(a, b) == a[3] < b[1] \/ b[3] < a[1] \/ a[4] < b[2] \/ b[4] < a[2]

\* the merge-range sets a workbook can hold: ranges never overlap
RECURSIVE MergeSets(_, _, _)
MergeSets(r, c, k) ==
    IF k = 0 THEN {{}}
    ELSE LET fewer == MergeSets(r, c, k - 1)
         IN  fewer \cup {m \cup {rg} : <<m, rg>> \in
                            {y \in fewer \X Rectangles(r, c) :
                                \A a \in y[1] : Disjoint(a, y[2])}}

NoSheet == [val |-> <<>>, fmt |-> <<>>, merged |-> {}, max_row |-> 0,
            max_column |-> 0]

\* every cell holds a value of its own, MergedCells read None
GridSheet(r, c, m) ==
    LET w0 == [val |-> <<>>, fmt |-> <<>>, merged |-> m, max_row |-> r,
               max_column |-> c]
    IN  [w0 EXCEPT
            !.val = [x \in (1..r) \X (1..c) |->
                        IF IsMergedCell(w0, x[1], x[2]) THEN None
                        ELSE IntV(10 * x[1] + x[2])],
            !.fmt = [x \in (1..r) \X (1..c) |-> "General"]]

InitMerge ==
    /\ ws \in {GridSheet(NRows, NCols, m) : m \in MergeSets(NRows, NCols, MaxMerges)}
    /\ raw = NoSheet
    /\ op = "init"
    /\ pre = NoSheet
    /\ args = <<>>
    /\ ret = "none"
    /\ n = 0
    /\ NoRun

SetValueMergeSafe ==
    /\ n < MaxWrites
    /\ \E row \in 1..NRows, col \in 1..NCols, value \in {StrV(<<"a">>), None} :
          /\ ws' = set_value_merge_safe(ws, row, col, value)
          /\ args' = [row |-> row, col |-> col, value |-> value]
    /\ pre' = ws
    /\ op' = "set_value_merge_safe"
    /\ ret' = "True"
    /\ n' = n + 1
    /\ UNCHANGED run_vars
    /\ UNCHANGED raw

NextMerge == SetValueMergeSafe

SpecMerge == InitMerge /\ [][NextMerge]_vars

\* the cell a merge-safe write at (r, c) must reach
Anchor(w, r, c) ==
    IF \E rg \in w.merged : InRange(rg, r, c)
    THEN LET rg == CHOOSE x \in w.merged : InRange(x, r, c) IN <<rg[1], rg[2]>>
    ELSE <<r, c>>

\* C1: a merge-safe write at (r, c) leaves the value in the anchor of the
\* merge range holding (r, c), or in (r, c) itself when no range holds it,
\* and changes no other cell of the sheet.
C1_MergeSafeWrite ==
    op = "set_value_merge_safe" =>
        LET a == Anchor(pre, args.row, args.col)
        IN  /\ ws.val[a] = args.value
            /\ \A x \in DOMAIN pre.val : x # a => ws.val[x] = pre.val[x]
            /\ DOMAIN ws.val = DOMAIN pre.val
            /\ ws.merged = pre.merged

\* a write aimed at a non-anchor member of a merge range has happened
C1_Witness ==
    /\ op = "set_value_merge_safe"
    /\ IsMergedCell(pre, args.row, args.col)
    /\ args.value # None

---------------------------------------------------------------------------
(* Footer normalisation on its own *)

FRows == 2

FCols == 3

MaxFilled == 2

OldCopyright == StrV(<<COPYRIGHT, " ", "2", "0", "2", "4", " ", "x">>)

OldStamp == StrV(<<STAND, " ", "o">>)

EmbeddedStamp == StrV(<<"x", " ", STAND, " ", "o">>)

Data == StrV(<<"x">>)

NewStamp == StrV(<<STAND, " ", "n">>)

\* a merge range inside one row, or none
RowMerges(r, c) ==
    {{}} \cup {{rg} : rg \in {x \in Rectangles(r, c) : x[1] = x[3]}}

\* a sheet of r x c cells: the copyright text in column A of row crow (none
\* for crow = 0), and the cells of f holding f's values
FooterSheet(r, c, crow, f, m) ==
    [val |-> [x \in (1..r) \X (1..c) |->
                 IF x = <<crow, 1>> THEN OldCopyright
                 ELSE IF x \in DOMAIN f THEN f[x] ELSE None],
     fmt |-> [x \in (1..r) \X (1..c) |-> "General"],
     merged |-> m, max_row |-> r, max_column |-> c]

\* the partial fillings of k cells at most
Fillings(cells, values, k) ==
    UNION {[S -> values] : S \in {T \in SUBSET cells : Cardinality(T) <= k}}

\* a MergedCell holds nothing
WellFormed(w) ==
    \A x \in DOMAIN w.val : IsMergedCell(w, x[1], x[2]) => w.val[x] = None

FooterSheets(r, c, k) ==
    {w \in {FooterSheet(r, c, crow, f, m) :
                crow \in 0..r,
                f \in Fillings((1..r) \X (1..c), {OldStamp, EmbeddedStamp, Data}, k),
                m \in RowMerges(r, c)} :
        WellFormed(w)}

InitFooter ==
    /\ ws \in FooterSheets(FRows, FCols, MaxFilled)
    /\ raw = NoSheet
    /\ op = "init"
    /\ pre = NoSheet
    /\ args = <<>>
    /\ ret = "none"
    /\ n = 0
    /\ NoRun

UpdateFooter ==
    /\ op = "init"
    /\ \E stand_text \in {None, NewStamp} :
          LET res == update_footer_with_stand_and_copyright(ws, stand_text)
          IN  /\ ws' = res.ws
              /\ ret' = res.ret
              /\ args' = [stand_text |-> stand_text]
    /\ pre' = ws
    /\ op' = "update_footer"
    /\ n' = n + 1
    /\ UNCHANGED run_vars
    /\ UNCHANGED raw

NextFooter == UpdateFooter

SpecFooter == InitFooter /\ [][NextFooter]_vars

\* the cells whose text contains "Stand:"
Stamps(w) == {x \in DOMAIN w.val : HasStand(w.val[x])}

\* C3: after footer normalisation the sheet holds exactly one as-of stamp.
\* Stated for the sheets the normaliser acts on in full: a copyright row
\* exists, a stamp text is given and the function returns normally.
C3_ExactlyOneStamp ==
    (/\ op = "update_footer"
     /\ ret.copyright_row # 0
     /\ ~Falsy(args.stand_text)
     /\ ret.err = "none")
        => Cardinality(Stamps(ws)) = 1

\* C5: when the stamp's target (copyright row, target column) is a non-anchor
\* member of a merge range, the stamp reaches the range's anchor and no
\* error is raised.
C5_StampWriteMergeSafe ==
    (/\ op = "update_footer"
     /\ ret.copyright_row # 0
     /\ ~Falsy(args.stand_text)
     /\ IsMergedCell(pre, ret.copyright_row, ret.stand_col))
        => /\ ret.err = "none"
           /\ ws.val[Anchor(pre, ret.copyright_row, ret.stand_col)] = args.stand_text

\* the columns of the copyright row that held a stamp before the run
StampedBefore(w, row) == {c \in 1..w.max_column : HasStand(Value(w, row, c))}

\* the columns, of the first 30, with a non-empty cell above the row
FilledAbove(w, row) ==
    {c \in 1..Min(max_scan_col, w.max_column) :
        \E r \in 1..(row - 1) : NonEmpty(Value(w, r, c))}

\* C21: with a copyright row and a stamp text, the stamp is written on the
\* copyright row, in a column that already held a stamp on that row if there
\* is one, otherwise in the right-most of the first 30 columns with a
\* non-empty cell above the copyright row; the cell holding the stamp is the
\* only stamp of the sheet.
C21_StampTarget ==
    (/\ op = "update_footer"
     /\ ret.copyright_row # 0
     /\ ~Falsy(args.stand_text))
        => \E c \in 1..ws.max_column :
              /\ IF StampedBefore(pre, ret.copyright_row) # {}
                 THEN c \in StampedBefore(pre, ret.copyright_row)
                 ELSE FilledAbove(ws, ret.copyright_row) # {}
                         => c = MaxOf(FilledAbove(ws, ret.copyright_row), 1)
              /\ ws.val[<<ret.copyright_row, c>>] = args.stand_text
              /\ Stamps(ws) = {<<ret.copyright_row, c>>}

---------------------------------------------------------------------------
(* The copyright text on its own: any text in column A of a one-row sheet *)

MaxLen == 7

TextsUpTo(alphabet, k) == UNION {[1..m -> alphabet] : m \in 0..k}

CopyrightSheet(text, right) ==
    [val |-> (<<1, 1>> :> StrV(text) @@ <<1, 2>> :> right),
     fmt |-> (<<1, 1>> :> "General" @@ <<1, 2>> :> "General"),
     merged |-> {}, max_row |-> 1, max_column |-> 2]

InitCopyright ==
    /\ ws \in {CopyrightSheet(text, right) :
                  text \in TextsUpTo({COPYRIGHT, " ", "2", "x"}, MaxLen),
                  right \in {None, Data}}
    /\ raw = NoSheet
    /\ op = "init"
    /\ pre = NoSheet
    /\ args = <<>>
    /\ ret = "none"
    /\ n = 0
    /\ NoRun

SpecCopyright == InitCopyright /\ [][NextFooter]_vars

\* the text holds "(C)opyright", blanks and four digits in a row
HasYearAfterMarker(s) == \E i \in 1..Len(s) : CopyrightMatchEnd(s, i) # 0

\* ... and those four digits are not the current year
HasStaleYearAfterMarker(s) ==
    \E i \in 1..Len(s) :
        LET e == CopyrightMatchEnd(s, i)
        IN  e # 0 /\ SubSeq(s, e - 3, e) # current_year

ContainsSeq(s, x) ==
    \E i \in 1..(Len(s) - Len(x) + 1) : SubSeq(s, i, i + Len(x) - 1) = x

\* four digits in a row somewhere after the marker
HasFourDigitsAfterMarker(s) ==
    \E i \in 1..Len(s) : \E j \in (i + 1)..(Len(s) - 3) :
        s[i] = COPYRIGHT /\ AllDigits(s, j, j + 3)

\* the stamp went to column A and replaced the copyright text
StampInColumnA == ~Falsy(args.stand_text) /\ ret.stand_col = 1

---------------------------------------------------------------------------
(* Period resolution on its own: header cells of a raw sheet *)

PRows == 2

PCols == 2

PeriodCellValues ==
    {StrV(<<"Dezember", " ", "2", "0", "2", "5">>),
     StrV(<<" ", "Quartal", " ", "2", "0", "2", "4", " ">>),
     StrV(<<"2", "0", "2", "3">>),
     StrV(<<" ", "2", "0", "2", "2">>),
     StrV(<<"x", " ", "2", "0", "2", "1", "x">>),
     StrV(<<"Dezember">>),
     StrV(<<"1", ".", "2", "0", "2", "5">>),
     StrV(<<"1", "9", "9", "9">>),
     StrV(<<"x">>),
     IntV(2025)}

PlainSheet(r, c, f) ==
    [val |-> [x \in (1..r) \X (1..c) |-> IF x \in DOMAIN f THEN f[x] ELSE None],
     fmt |-> [x \in (1..r) \X (1..c) |-> "General"],
     merged |-> {}, max_row |-> r, max_column |-> c]

InitPeriod ==
    /\ raw \in {PlainSheet(PRows, PCols, f) :
                   f \in Fillings((1..PRows) \X (1..PCols), PeriodCellValues,
                                  MaxFilled)}
    /\ ws = NoSheet
    /\ op = "init"
    /\ pre = NoSheet
    /\ args = <<>>
    /\ ret = "none"
    /\ n = 0
    /\ NoRun

FindPeriodText ==
    /\ op = "init"
    /\ \E search_rows \in {1, search_rows_default},
          search_cols \in {1, search_cols_default} :
          /\ ret' = find_period_text(raw, search_rows, search_cols)
          /\ args' = [search_rows |-> search_rows, search_cols |-> search_cols]
    /\ op' = "find_period_text"
    /\ n' = n + 1
    /\ UNCHANGED run_vars
    /\ UNCHANGED <<ws, raw, pre>>

NextPeriod == FindPeriodText

SpecPeriod == InitPeriod /\ [][NextPeriod]_vars

\* the cells of the search window
Window(w, a) ==
    (1..Min(a.search_rows, w.max_row)) \X (1..Min(a.search_cols, w.max_column))

\* x comes before y when rows are read top to bottom, each left to right
Before(x, y) == x[1] < y[1] \/ (x[1] = y[1] /\ x[2] <= y[2])

HasYear20(s) == \E i \in 1..(Len(s) - 3) :
                    s[i] = "2" /\ s[i + 1] = "0" /\ AllDigits(s, i + 2, i + 3)

DigitCount(s) == Cardinality({i \in 1..Len(s) : s[i] \in Digits})

\* a period candidate as the code takes it: a text with a year 20YY that
\* holds a month name or a period token, or no digit besides that year
IsCandidate(v) ==
    /\ IsStr(v)
    /\ HasYear20(v.s)
    /\ (HasMonthOrToken(v.s) \/ DigitCount(v.s) = 4)

Candidates(w, a) == {x \in Window(w, a) : IsCandidate(w.val[x])}

LastCandidate(w, a) ==
    CHOOSE x \in Candidates(w, a) : \A y \in Candidates(w, a) : Before(y, x)

\* the year 20YY of a text that holds one
YearOf(s) ==
    LET i == CHOOSE j \in 1..(Len(s) - 3) :
                 s[j] = "2" /\ s[j + 1] = "0" /\ AllDigits(s, j + 2, j + 3)
    IN  SubSeq(s, i, i + 3)

\* C6 as stated: the last candidate in scan order is returned, as
\* "Jahr <YYYY>" when it is a year alone and verbatim otherwise.
C6_LastCandidateVerbatim ==
    (op = "find_period_text" /\ Candidates(raw, args) # {}) =>
        LET v == raw.val[LastCandidate(raw, args)]
        IN  ret.text = IF HasMonthOrToken(v.s) THEN v
                       ELSE StrV(<<"Jahr", " ">> \o YearOf(v.s))

\* C6 as amended: the last candidate in scan order (rows top to bottom,
\* columns left to right, inside the window) is returned, as "Jahr <YYYY>"
\* when it holds neither month name nor period token, and otherwise with its
\* leading and trailing blanks removed.
C6_LastCandidateStripped ==
    op = "find_period_text" =>
        IF Candidates(raw, args) = {} THEN ret.text = None
        ELSE LET v == raw.val[LastCandidate(raw, args)]
             IN  ret.text = IF HasMonthOrToken(v.s) THEN StrV(Strip(v.s))
                            ELSE StrV(<<"Jahr", " ">> \o YearOf(v.s))

\* two candidates in the window, the later one padded with blanks, and the
\* later one came back
C6_Witness ==
    /\ op = "find_period_text"
    /\ Cardinality(Candidates(raw, args)) >= 2
    /\ raw.val[LastCandidate(raw, args)].s = <<" ", "Quartal", " ", "2", "0", "2", "4", " ">>
    /\ ret.text = StrV(<<"Quartal", " ", "2", "0", "2", "4">>)

\* C7 as stated, its last clause: a cell of the window that holds a month
\* name or a period token is a candidate, with or without a year, so a text
\* is found.
C7_MonthOrTokenSuffices ==
    (/\ op = "find_period_text"
     /\ \E x \in Window(raw, args) :
            IsStr(raw.val[x]) /\ HasMonthOrToken(raw.val[x].s))
        => ret.text # None

\* C7 as amended: a text cell of the window is a candidate if and only if it
\* holds a year 20YY and, besides, a month name, a period token or no other
\* digit; hits holds one entry for each such cell and for no other.
C7_CandidateIffYear ==
    op = "find_period_text" =>
        /\ Len(ret.hits) = Cardinality(Candidates(raw, args))
        /\ (ret.text # None) <=> (Candidates(raw, args) # {})

\* a month name without a year was scanned and nothing was found
C7_Witness ==
    /\ op = "find_period_text"
    /\ \E x \in Window(raw, args) : raw.val[x] = StrV(<<"Dezember">>)
    /\ \E x \in Window(raw, args) : raw.val[x] = StrV(<<"1", ".", "2", "0", "2", "5">>)
    /\ ret.text = None

---------------------------------------------------------------------------
(* Number formatting on its own *)

FmtRows == 1

FmtCols == 2

MaxTenths == 15

\* one float of the range, and the other kinds of cell content
FormatCellValues(t) ==
    {FloatV(t), IntV(-1234), StrV(<<"-">>), StrV(<<"X">>), StrV(<<"x">>),
     StrV(<<"1", "2">>), StrV(<<>>)}

InitFormat ==
    /\ ws \in {PlainSheet(FmtRows, FmtCols, f) :
                  f \in UNION {Fillings((1..FmtRows) \X (1..FmtCols),
                                        FormatCellValues(t), MaxFilled) :
                               t \in (-MaxTenths)..MaxTenths}}
    /\ raw = NoSheet
    /\ op = "init"
    /\ pre = NoSheet
    /\ args = <<>>
    /\ ret = "none"
    /\ n = 0
    /\ NoRun

FormatNumericCells ==
    /\ op = "init"
    /\ \E skip_cols \in {{}, {FmtCols}} :
          /\ ws' = format_numeric_cells(ws, skip_cols)
          /\ args' = [skip_cols |-> skip_cols]
    /\ pre' = ws
    /\ op' = "format_numeric_cells"
    /\ ret' = "none"
    /\ n' = n + 1
    /\ UNCHANGED run_vars
    /\ UNCHANGED raw

FormatPercentColumn ==
    /\ op = "init"
    /\ \E col_index \in 1..FmtCols :
          /\ ws' = format_percent_column(ws, col_index)
          /\ args' = [col_index |-> col_index]
    /\ pre' = ws
    /\ op' = "format_percent_column"
    /\ ret' = "none"
    /\ n' = n + 1
    /\ UNCHANGED run_vars
    /\ UNCHANGED raw

NextFormat == FormatNumericCells \/ FormatPercentColumn

SpecFormat == InitFormat /\ [][NextFormat]_vars

\* C9: neither formatting function changes the value or the number format
\* of a cell that holds "-", "X", nothing, or any other text.
C9_NonNumericUntouched ==
    op \in {"format_numeric_cells", "format_percent_column"} =>
        \A x \in DOMAIN pre.val :
            ~IsNumber(pre.val[x]) =>
                ws.val[x] = pre.val[x] /\ ws.fmt[x] = pre.fmt[x]

\* format_numeric_cells went over a sheet that holds a sentinel and a float
\* in columns it does not skip, and formatted the float
C9_Witness ==
    /\ op = "format_numeric_cells"
    /\ args.skip_cols = {}
    /\ \E x \in DOMAIN pre.val : IsSentinel(pre.val[x])
    /\ \E x \in DOMAIN pre.val : pre.val[x].k = "float" /\ ws.fmt[x] = INT_FMT

\* C10: after format_numeric_cells every number in a column that is not
\* skipped is an integer at most 1/2 away from the value it had (an integer
\* keeps its value) and carries the space-grouped integer format.
C10_RoundedToNearest ==
    op = "format_numeric_cells" =>
        \A x \in DOMAIN pre.val :
            (IsNumber(pre.val[x]) /\ x[2] \notin args.skip_cols) =>
                /\ ws.val[x].k = "int"
                /\ ws.fmt[x] = INT_FMT
                /\ pre.val[x].k = "int" => ws.val[x] = pre.val[x]
                /\ pre.val[x].k = "float" =>
                      /\ 10 * ws.val[x].n - pre.val[x].n <= 5
                      /\ pre.val[x].n - 10 * ws.val[x].n <= 5

\* a float with a fraction above 1/2 was rounded up
C10_Witness ==
    /\ op = "format_numeric_cells"
    /\ \E x \in DOMAIN pre.val :
          /\ pre.val[x] = FloatV(7)
          /\ x[2] \notin args.skip_cols
          /\ ws.val[x] = IntV(1)

---------------------------------------------------------------------------
(* Building an output workbook from a raw sheet and a layout *)

BCols == 4

MaxData == 2

HeaderRows == 6

RawHeaderRows == 2

Letters == <<"a", "b", "c", "d", "e", "f", "g", "h", "i", "j", "k", "l">>

Bit(b) == IF b THEN 1 ELSE 0

\* A layout: HeaderRows header rows whose column A holds hdr, td data rows
\* holding the placeholder ph, then a footnote row (foot) and a copyright
\* row with the stamp in the last column (copy).
LayoutSheetOf(cols, td, foot, copy, hdr, ph, m) ==
    LET rows == HeaderRows + td + Bit(foot) + Bit(copy)
        w0 == [val |-> <<>>, fmt |-> <<>>, merged |-> m, max_row |-> rows,
               max_column |-> cols]
        content(x) ==
            IF x[1] <= HeaderRows
            THEN (IF x[2] = 1 THEN hdr
                  ELSE IF x[1] = HeaderRows THEN StrV(<<"x">>) ELSE None)
            ELSE IF x[1] <= HeaderRows + td
            THEN (IF x[2] = 1 THEN StrV(<<"x">>) ELSE ph)
            ELSE IF foot /\ x[1] = HeaderRows + td + 1
            THEN (IF x[2] = 1 THEN StrV(<<"-", "x">>) ELSE None)
            ELSE (IF x[2] = 1 THEN OldCopyright
                  ELSE IF x[2] = cols THEN OldStamp ELSE None)
    IN  [w0 EXCEPT
            !.val = [x \in (1..rows) \X (1..cols) |->
                        IF IsMergedCell(w0, x[1], x[2]) THEN None ELSE content(x)],
            !.fmt = [x \in (1..rows) \X (1..cols) |-> "General"]]

LayoutSheet(td, foot, copy, hdr, ph, m) == LayoutSheetOf(BCols, td, foot, copy, hdr, ph, m)

\* the merge ranges tried in a layout: none, or columns B:C of the first
\* data row
LayoutMerges(td) ==
    {{}} \cup (IF td >= 1 THEN {{<<HeaderRows + 1, 2, HeaderRows + 1, 3>>}} ELSE {})

Layouts ==
    UNION {{LayoutSheet(td, foot, copy, hdr, ph, m) :
                foot \in BOOLEAN, copy \in BOOLEAN,
                hdr \in {None, StrV(<<"h">>)}, ph \in {None, IntV(0)},
                m \in LayoutMerges(td)} : td \in 0..MaxData}

\* A raw sheet: a title, the period cell, rd data rows whose every cell
\* holds a value of its own, then a footnote row and a copyright row with
\* the stamp.
RawSheetWith(hr, period, rd, foot, copy) ==
    LET rows == hr + rd + Bit(foot) + Bit(copy)
        content(x) ==
            IF x[1] <= hr
            THEN (IF x[2] # 1 THEN None
                  ELSE IF x[1] = 1 THEN StrV(<<"x">>) ELSE period)
            ELSE IF x[1] <= hr + rd
            THEN (IF x[2] = 1 THEN StrV(<<"x", Letters[x[1]]>>)
                  ELSE IF x[2] % 2 = 0 THEN IntV(100 * x[1] + x[2])
                  ELSE FloatV(1000 * x[1] + 10 * x[2] + 5))
            ELSE IF foot /\ x[1] = hr + rd + 1
            THEN (IF x[2] = 1 THEN StrV(<<"-", "y">>) ELSE None)
            ELSE (IF x[2] = 1 THEN OldCopyright
                  ELSE IF x[2] = BCols THEN NewStamp ELSE None)
    IN  [val |-> [x \in (1..rows) \X (1..BCols) |-> content(x)],
         fmt |-> [x \in (1..rows) \X (1..BCols) |-> "General"],
         merged |-> {}, max_row |-> rows, max_column |-> BCols]

RawSheetOf(period, rd, foot, copy) == RawSheetWith(RawHeaderRows, period, rd, foot, copy)

RawSheets ==
    {RawSheetOf(period, rd, foot, copy) :
        period \in {None, StrV(<<"Dezember", " ", "2", "0", "2", "5">>),
                    StrV(<<"2", "0", "2", "5">>)},
        rd \in 0..(MaxData + 1), foot \in BOOLEAN, copy \in BOOLEAN}

InitBuild ==
    /\ raw \in RawSheets
    /\ ws \in Layouts
    /\ op = "init"
    /\ pre = NoSheet
    /\ args = <<>>
    /\ ret = "none"
    /\ n = 0
    /\ NoRun

\* ws is the layout as loaded; afterwards it is the sheet the builder leaves
BuildTable1 ==
    /\ op = "init"
    /\ \E internal_layout \in BOOLEAN :
          \E res \in {build_table1_workbook(raw, ws, internal_layout)} :
              /\ ws' = res.ws
              /\ ret' = res.ret
              /\ args' = [table_no |-> 1, internal_layout |-> internal_layout]
    /\ pre' = ws
    /\ op' = "build"
    /\ n' = n + 1
    /\ UNCHANGED run_vars
    /\ UNCHANGED raw

BuildTable2_3 ==
    /\ op = "init"
    /\ \E table_no \in {2, 3}, internal_layout \in BOOLEAN :
          \E res \in {build_table2_3_workbook(table_no, raw, ws, internal_layout)} :
              /\ ws' = res.ws
              /\ ret' = res.ret
              /\ args' = [table_no |-> table_no, internal_layout |-> internal_layout]
    /\ pre' = ws
    /\ op' = "build"
    /\ n' = n + 1
    /\ UNCHANGED run_vars
    /\ UNCHANGED raw

NextBuild == BuildTable1 \/ BuildTable2_3

SpecBuild == InitBuild /\ [][NextBuild]_vars

\* the layout rows the transcription may write
DataBlockOut ==
    ret.fdr_out..(ret.fdr_out
                  + Min(Max(0, ret.ft_raw - ret.fdr_raw),
                        Max(0, ret.ft_out - ret.fdr_out)) - 1)

\* C2: the transcription writes exactly the first min(raw block length,
\* layout block length) rows of the layout's data block, each from the raw
\* row at the same offset; every layout row outside keeps the value it had
\* before the transcription, and nothing comes from a raw row at or after
\* the raw footer start.
C2_TranscribedRows ==
    op = "build" =>
        /\ \A x \in DOMAIN ret.headed.val :
              x[1] \notin DataBlockOut => ret.transcribed.val[x] = ret.headed.val[x]
        /\ \A x \in DOMAIN ret.headed.val :
              (/\ x[1] \in DataBlockOut
               /\ x[2] >= ret.start_col
               /\ ~IsMergedCell(ret.headed, x[1], x[2]))
                  => /\ ret.fdr_raw + (x[1] - ret.fdr_out) < ret.ft_raw
                     /\ ret.transcribed.val[x] =
                           Value(raw, ret.fdr_raw + (x[1] - ret.fdr_out), x[2])
        /\ DOMAIN ret.transcribed.val = DOMAIN ret.headed.val

\* the raw block is longer than the layout block, which is not empty: the
\* layout block is filled and the last raw data row is left out
C2_Witness ==
    /\ op = "build"
    /\ ret.ft_raw - ret.fdr_raw > ret.ft_out - ret.fdr_out
    /\ ret.ft_out - ret.fdr_out >= 1
    /\ ret.fdr_out > HeaderRows
    /\ ret.ft_out <= pre.max_row
    /\ ret.transcribed.val[<<ret.ft_out - 1, 2>>]
          = IntV(100 * (ret.fdr_raw + ret.ft_out - 1 - ret.fdr_out) + 2)
    /\ ret.transcribed.val[<<ret.ft_out, 1>>] = pre.val[<<ret.ft_out, 1>>]

\* C8: when no period text is found, the builder leaves the layout's
\* period cell as it was loaded.  Stated for a period cell above the data
\* block, which neither the transcription nor the footer touches.
C8_PeriodCellKept ==
    (/\ op = "build"
     /\ ret.period_text = None
     /\ ret.err = "none"
     /\ ret.period_row < ret.fdr_out
     /\ ~IsCopyrightText(pre.val[<<ret.period_row, 1>>]))
        => ws.val[<<ret.period_row, 1>>] = pre.val[<<ret.period_row, 1>>]

---------------------------------------------------------------------------
(* Building the output workbooks of tables 1, 2, 3 and 5 from sheets wide
   enough to hold the percent columns *)

WCols == 10

WData == 2

MaxSheets == 2

BlockLabel == StrV(<<BAYERN, " ", "1", ")">>)

\* what a raw data cell of column c >= 3 holds: a float with a fraction, an
\* int or the sentinel "-", by turns
WideValue(r, c, p) ==
    IF (r + c + p) % 3 = 0 THEN FloatV(100 * r + 10 * c + 5)
    ELSE IF (r + c + p) % 3 = 1 THEN IntV(100 * r + c)
    ELSE StrV(<<"-">>)

\* A raw sheet as RawSheetOf, WCols wide; the first nb data rows open a block
\* (column B holds the block label), the other data rows hold a number there.
WideRawSheet(rd, nb, foot, p) ==
    LET rows == RawHeaderRows + rd + Bit(foot) + 1
        content(x) ==
            IF x[1] <= RawHeaderRows
            THEN (IF x[2] # 1 THEN None
                  ELSE IF x[1] = 1 THEN StrV(<<"x">>)
                  ELSE StrV(<<"Dezember", " ", "2", "0", "2", "5">>))
            ELSE IF x[1] <= RawHeaderRows + rd
            THEN (IF x[2] = 1 THEN StrV(<<"x", Letters[x[1]]>>)
                  ELSE IF x[2] = 2
                       THEN (IF x[1] <= RawHeaderRows + nb THEN BlockLabel
                             ELSE IntV(100 * x[1] + 2))
                       ELSE WideValue(x[1], x[2], p))
            ELSE IF foot /\ x[1] = RawHeaderRows + rd + 1
            THEN (IF x[2] = 1 THEN StrV(<<"-", "y">>) ELSE None)
            ELSE (IF x[2] = 1 THEN OldCopyright
                  ELSE IF x[2] = WCols THEN NewStamp ELSE None)
    IN  [val |-> [x \in (1..rows) \X (1..WCols) |-> content(x)],
         fmt |-> [x \in (1..rows) \X (1..WCols) |-> "General"],
         merged |-> {}, max_row |-> rows, max_column |-> WCols]

WideRawSheets ==
    UNION {{WideRawSheet(rd, nb, foot, p) : nb \in 0..rd, foot \in BOOLEAN, p \in 0..2} :
              rd \in 1..WData}

\* the merge ranges tried in a wide layout: none, or columns G:H of the
\* first data row
WideLayouts ==
    {LayoutSheetOf(WCols, td, TRUE, copy, StrV(<<"h">>), IntV(0), m) :
        td \in 1..WData, copy \in BOOLEAN,
        m \in {{}, {<<HeaderRows + 1, 7, HeaderRows + 1, 8>>}}}

InitOutput ==
    /\ raw \in WideRawSheets
    /\ ws \in WideLayouts
    /\ op = "init"
    /\ pre = NoSheet
    /\ args = <<>>
    /\ ret = "none"
    /\ n = 0
    /\ NoRun

\* ws is the worksheet every worksheet of the layout workbook looks like
BuildTable5 ==
    /\ op = "init"
    /\ \E internal_layout \in BOOLEAN, is_jj \in BOOLEAN, k \in 1..MaxSheets :
          \E res \in {build_table5_workbook(raw, [i \in 1..k |-> ws],
                                            internal_layout, is_jj)} :
              /\ ws' = res.ws
              /\ ret' = res.ret
              /\ args' = [table_no |-> 5, internal_layout |-> internal_layout,
                          is_jj |-> is_jj]
    /\ pre' = ws
    /\ op' = "build"
    /\ n' = n + 1
    /\ UNCHANGED run_vars
    /\ UNCHANGED raw

NextOutput == BuildTable1 \/ BuildTable2_3 \/ BuildTable5

SpecOutput == InitOutput /\ [][NextOutput]_vars

\* the worksheets the formatting step has run on, each with the sheet as it
\* was before footer and formats
Formatted ==
    IF args.table_no = 5
    THEN {<<ret.sheets[i], ret.filled[i]>> :
             i \in 1..Min(Len(ret.sheets), Len(ret.blocks))}
    ELSE {<<ws, ret.transcribed>>}

---------------------------------------------------------------------------
(* Marking on its own: any sheet, any marker column *)

MRows == 2

MCols == 2

FILL == "FFFF99"

MarkerValues ==
    {IntV(1), IntV(3), FloatV(20), FloatV(15), StrV(<<" ", "2">>),
     StrV(<<"1", "2">>), StrV(<<"-">>)}

\* a sheet whose cells carry a fill: none, or an older one in column A
FilledSheet(r, c, f, old) ==
    PlainSheet(r, c, f) @@
        [fill |-> [x \in (1..r) \X (1..c) |->
                      IF old /\ x[2] = 1 THEN "old" ELSE NO_FILL]]

InitMark ==
    /\ ws \in {FilledSheet(MRows, MCols, f, old) :
                  f \in Fillings((1..MRows) \X (1..MCols), MarkerValues, MaxFilled),
                  old \in BOOLEAN}
    /\ raw = NoSheet
    /\ op = "init"
    /\ pre = NoSheet
    /\ args = <<>>
    /\ ret = "none"
    /\ n = 0
    /\ NoRun

MarkCells ==
    /\ op = "init"
    /\ \E col_index \in 1..(MCols + 1) :
          /\ ws' = mark_cells_with_1_or_2(ws, col_index, FILL)
          /\ args' = [col_index |-> col_index, fill |-> FILL]
    /\ pre' = ws
    /\ op' = "mark_cells"
    /\ ret' = "None"
    /\ n' = n + 1
    /\ UNCHANGED run_vars
    /\ UNCHANGED raw

NextMark == MarkCells

SpecMark == InitMark /\ [][NextMark]_vars

\* the row's marker-column value is 1 or 2
Marked(r) == IsOneOrTwo(Value(pre, r, args.col_index))

---------------------------------------------------------------------------
(* Files, folders and the workbooks a run loads, writes and saves.         *)
(*                                                                         *)
(* A file name "<prefix>_<token><suffix>.xlsx" is a record                 *)
(* [table, token, suffix]: table is the number its prefix stands for,      *)
(* token the period token and suffix the sequence of "_g" / "_INTERN"      *)
(* endings that follow it.  A path is [dir, name].  What a run does with   *)
(* workbooks is recorded in events, one record per load_workbook, per      *)
(* writing of a workbook, per save and per exception raised.               *)

PREFIX_TO_TABLE == {1, 2, 3, 5}

TEMPLATES(t, k) == [dir |-> <<"Layouts">>, name |-> [table |-> t, token |-> <<"Layout">>, suffix |-> <<IF k = "ext" THEN "_g" ELSE "_INTERN">>]]

EndsWith(s, x) == Len(s) >= 1 /\ s[Len(s)] = x

TokenRank(token) == IF EndsWith(token, "-JJ") THEN 2 ELSE 1

SuffixRank(suffix) == IF suffix = <<>> THEN 0 ELSE IF suffix[1] = "_INTERN" THEN 1 ELSE 2

\* the order of the file names as strings
NameBefore(a, b) ==
    \/ a.table < b.table
    \/ a.table = b.table /\ TokenRank(a.token) < TokenRank(b.token)
    \/ a.table = b.table /\ TokenRank(a.token) = TokenRank(b.token) /\ SuffixRank(a.suffix) < SuffixRank(b.suffix)

RECURSIVE Sorted(_)
Sorted(S) ==
    IF S = {} THEN <<>>
    ELSE LET first == CHOOSE a \in S : \A b \in S \ {a} : NameBefore(a, b)
         IN  <<first>> \o Sorted(S \ {first})

IsRawName(name) == ~EndsWith(name.suffix, "_g") /\ ~EndsWith(name.suffix, "_INTERN")

find_all_files(d) ==
    LET files == Sorted({f \in d.listing : f.table \in PREFIX_TO_TABLE})
    IN  [i \in 1..Len(files) |-> [dir |-> d.path, name |-> files[i]]]

find_raw_files(d) ==
    LET files == Sorted({f \in d.listing : f.table \in PREFIX_TO_TABLE /\ IsRawName(f)})
    IN  [i \in 1..Len(files) |-> [dir |-> d.path, name |-> files[i]]]

ensure_output_run_folder(d) == <<"out", d.path[2]>>

OutPath(raw_path, output_dir, ending) == [dir |-> output_dir, name |-> [raw_path.name EXCEPT !.suffix = @ \o <<ending>>]]

NextObj(ev) == 1 + Cardinality({i \in DOMAIN ev : ev[i].e = "load"})

Event(e, obj, path, role, file) == [e |-> e, obj |-> obj, path |-> path, role |-> role, file |-> file]

Raise(c, file, what) == [events |-> Append(c.events, Event("raise", 0, <<>>, what, file)), err |-> TRUE]

load_workbook(c, file, path, role, ok) ==
    IF c.err THEN c
    ELSE IF ~ok THEN [events |-> Append(c.events, Event("raise", 0, path, "load", file)), err |-> TRUE]
    ELSE [c EXCEPT !.events = Append(c.events, Event("load", NextObj(c.events), path, role, file))]

LastLoaded(c) == NextObj(c.events) - 1

Write(c, file, obj, ok) ==
    IF c.err THEN c
    ELSE IF ~ok THEN Raise(c, file, "build")
    ELSE [c EXCEPT !.events = Append(c.events, Event("write", obj, <<>>, "", file))]

save(c, file, obj, path, ok) ==
    IF c.err THEN c
    ELSE IF ~ok THEN Raise(c, file, "save")
    ELSE [c EXCEPT !.events = Append(c.events, Event("save", obj, path, "", file))]

\* What can go wrong while one file is processed: the raw workbook cannot
\* be read, a layout cannot be loaded, the building raises, a save fails.
Fault(what, k) == <<what, k>>

NoFault == Fault("none", "")

FileFaults == {NoFault, Fault("raw", "")} \cup {Fault(what, k) : what \in {"layout", "build", "save"}, k \in {"int", "ext"}}

is_jj(raw_path) == EndsWith(raw_path.name.token, "-JJ")

\* build_table1_workbook, build_table2_3_workbook, build_table5_workbook:
\* the raw workbook is loaded for reading, the layout is loaded and written.
build_workbook(c, raw_path, k, fault) ==
    LET c1 == load_workbook(c, raw_path, raw_path, "raw", fault # Fault("raw", ""))
        c2 == load_workbook(c1, raw_path, TEMPLATES(raw_path.name.table, k), "layout", fault # Fault("layout", k))
    IN  Write(c2, raw_path, LastLoaded(c2), fault # Fault("build", k))

process_table1_file(c, raw_path, output_dir, fault) ==
    LET ci == build_workbook(c, raw_path, "int", fault)
        c1 == save(ci, raw_path, LastLoaded(ci), OutPath(raw_path, output_dir, "_INTERN"), fault # Fault("save", "int"))
    IN  IF is_jj(raw_path)
        THEN LET c2 == load_workbook(c1, raw_path, raw_path, "rawcopy", fault # Fault("raw", ""))
                 c3 == load_workbook(c2, raw_path, raw_path, "raw", fault # Fault("raw", ""))
                 c4 == Write(c3, raw_path, LastLoaded(c2), fault # Fault("build", "ext"))
             IN  save(c4, raw_path, LastLoaded(c2), OutPath(raw_path, output_dir, "_g"), fault # Fault("save", "ext"))
        ELSE LET cg == build_workbook(c1, raw_path, "ext", fault)
             IN  save(cg, raw_path, LastLoaded(cg), OutPath(raw_path, output_dir, "_g"), fault # Fault("save", "ext"))

\* the same with the external layout loaded for annual files too
process_table2_or_3_file_fresh(c, raw_path, output_dir, fault) ==
    LET ci == build_workbook(c, raw_path, "int", fault)
        c1 == save(ci, raw_path, LastLoaded(ci), OutPath(raw_path, output_dir, "_INTERN"), fault # Fault("save", "int"))
        cg == build_workbook(c1, raw_path, "ext", fault)
    IN  save(cg, raw_path, LastLoaded(cg), OutPath(raw_path, output_dir, "_g"), fault # Fault("save", "ext"))

process_table2_or_3_file(c, raw_path, output_dir, fault) ==
    LET ci == build_workbook(c, raw_path, "int", fault)
        c1 == save(ci, raw_path, LastLoaded(ci), OutPath(raw_path, output_dir, "_INTERN"), fault # Fault("save", "int"))
    IN  IF is_jj(raw_path)
        THEN LET c2 == Write(c1, raw_path, LastLoaded(ci), TRUE)
             IN  save(c2, raw_path, LastLoaded(ci), OutPath(raw_path, output_dir, "_g"), fault # Fault("save", "ext"))
        ELSE LET cg == build_workbook(c1, raw_path, "ext", fault)
             IN  save(cg, raw_path, LastLoaded(cg), OutPath(raw_path, output_dir, "_g"), fault # Fault("save", "ext"))

process_table5_file(c, raw_path, output_dir, fault) ==
    LET ci == build_workbook(c, raw_path, "int", fault)
        c1 == save(ci, raw_path, LastLoaded(ci), OutPath(raw_path, output_dir, "_INTERN"), fault # Fault("save", "int"))
    IN  IF is_jj(raw_path)
        THEN LET c2 == Write(c1, raw_path, LastLoaded(ci), TRUE)
             IN  save(c2, raw_path, LastLoaded(ci), OutPath(raw_path, output_dir, "_g"), fault # Fault("save", "ext"))
        ELSE LET cg == build_workbook(c1, raw_path, "ext", fault)
             IN  save(cg, raw_path, LastLoaded(cg), OutPath(raw_path, output_dir, "_g"), fault # Fault("save", "ext"))

process_file(c, raw_path, output_dir, fault) ==
    IF raw_path.name.table = 1 THEN process_table1_file(c, raw_path, output_dir, fault)
    ELSE IF raw_path.name.table \in {2, 3} THEN process_table2_or_3_file(c, raw_path, output_dir, fault)
    ELSE process_table5_file(c, raw_path, output_dir, fault)

Tab8Faults == {NoFault, Fault("raw", ""), Fault("layout", "ext"), Fault("build", "ext"), Fault("save", "ext")}

TAB8_PARTS == <<25, 26, 27, 28>>

\* "<nr>_Tab8_<token>.xlsx"; with nr = 8 and the ending "_g" the name
\* stands for "Tabelle-8-Land_<token>_g.xlsx"
Tab8Name(nr) == [table |-> nr, token |-> <<"2025", "-12">>, suffix |-> <<>>]

Tab8Part(d, nr) == [dir |-> d.path, name |-> Tab8Name(nr)]

\* the period whose four parts are put together
Tab8Batch(d) == [dir |-> d.path, name |-> Tab8Name(8)]

\* fill_tab8_sheet for each part: the part is loaded for reading and one
\* worksheet of the layout workbook is written
RECURSIVE fill_tab8_sheets(_, _, _, _, _)
fill_tab8_sheets(c, d, wb_out, fault, i) ==
    IF i > Len(TAB8_PARTS) THEN c
    ELSE fill_tab8_sheets(
             Write(load_workbook(c, Tab8Batch(d), Tab8Part(d, TAB8_PARTS[i]), "raw", fault # Fault("raw", "")),
                   Tab8Batch(d), wb_out, fault # Fault("build", "ext")),
             d, wb_out, fault, i + 1)

\* process_tab8_in_dir: the parts of one period are written into a layout
\* loaded for that period and saved as "Tabelle-8-Land_<token>_g.xlsx".
process_tab8_in_dir(c, d, out_dir, fault) ==
    IF ~d.tab8 THEN c
    ELSE IF fault = Fault("layout", "ext") THEN Raise(c, Tab8Batch(d), "FileNotFoundError")
    ELSE \* the layout workbook is the object loaded next
         LET wb_out == NextObj(c.events)
             c1 == load_workbook(c, Tab8Batch(d), TEMPLATES(8, "ext"), "layout", TRUE)
             \* the loop over the parts runs twice
             c2 == fill_tab8_sheets(c1, d, wb_out, fault, 1)
         IN  save(fill_tab8_sheets(c2, d, wb_out, fault, 1), Tab8Batch(d), wb_out,
                  OutPath(Tab8Batch(d), out_dir, "_g"), fault # Fault("save", "ext"))

---------------------------------------------------------------------------
(* Specification of a run: run_processing over the input folders.          *)

MaxJobs == 2
MaxFiles == 2

JOB_LABELS == <<"Monat", "Quartal", "Halbjahr", "Jahr">>

TOKENS == {<<"2025", "-12">>, <<"2025", "-JJ">>}

\* the names a folder may hold: raw files of every kind, monthly or annual,
\* and an artifact of an earlier run
Names ==
    {[table |-> x[1], token |-> <<"2025", x[2]>>, suffix |-> <<>>] :
        x \in {<<1, "-12">>, <<1, "-JJ">>, <<2, "-12">>, <<3, "-JJ">>, <<5, "-JJ">>}}
    \cup {[table |-> 1, token |-> <<"2025", "-12">>, suffix |-> <<"_g">>]}

Listings(k) == {S \in SUBSET Names : Cardinality(S) <= k}

\* a folder that does not exist, or one with its files; the folder may be
\* the output folder of its own job, or hold the parts of table 8
Dirs(lbl, k) ==
    {[path |-> <<"in", lbl>>, exists |-> FALSE, tab8 |-> FALSE, listing |-> {}]}
    \cup {[path |-> <<x[1], lbl>>, exists |-> TRUE, tab8 |-> x[2], listing |-> l] :
             x \in {<<"in", FALSE>>, <<"in", TRUE>>, <<"out", FALSE>>}, l \in Listings(k)}

RECURSIVE TotalFiles(_)
TotalFiles(jobs) == IF jobs = <<>> THEN 0 ELSE Cardinality(jobs[1].listing) + TotalFiles(Tail(jobs))

RECURSIVE JobLists(_, _)
JobLists(j, k) ==
    IF j = 0 THEN {<<>>}
    ELSE UNION {{Append(jobs, d) : d \in Dirs(JOB_LABELS[j], k - TotalFiles(jobs))} : jobs \in JobLists(j - 1, k)}

At(at, job, file, files) == [at |-> at, job |-> job, file |-> file, files |-> files]

ERROR_STATUS == "Fehler"

\* the file loop with every exception caught and the next file taken up
Swallow(err, at_error, at_next) == at_next

\* an exception leaves the loops over files and jobs and reaches the
\* except clause of run_processing
Propagate(err, at_error, at_next) == IF err THEN at_error ELSE at_next

InitRun ==
    /\ \E j \in 0..MaxJobs : \E base_out_dir \in BOOLEAN :
         \E jobs \in JobLists(j, IF base_out_dir THEN MaxFiles ELSE 0) :
           env = [jobs |-> jobs, base_out_dir |-> base_out_dir]
    /\ pc = At("start", 0, 0, <<>>)
    /\ status = "Bereit."
    /\ events = <<>>
    /\ ws = <<>> /\ raw = <<>> /\ op = "" /\ pre = <<>> /\ args = <<>> /\ ret = <<>> /\ n = 0

\* run_processing up to its loop over the jobs
RunProcessing ==
    /\ pc.at = "start"
    /\ pc' = IF ~env.base_out_dir \/ env.jobs = <<>> THEN At("returned", 0, 0, <<>>) ELSE At("job", 1, 0, <<>>)
    /\ UNCHANGED <<env, status, events, sheet_vars, n>>

\* run_for_one_input_dir up to its loop over the files
RunForOneInputDir ==
    /\ pc.at = "job"
    /\ pc.job <= Len(env.jobs)
    /\ LET d == env.jobs[pc.job]
           files == find_raw_files(d)
       IN  IF ~d.exists \/ (files = <<>> /\ ~d.tab8)
           THEN /\ pc' = At("job", pc.job + 1, 0, <<>>)
                /\ status' = "Starte"
                /\ events' = events
           ELSE \E missing_layouts \in BOOLEAN :
                    IF files # <<>> /\ missing_layouts
                    THEN /\ events' = Append(events, Event("raise", 0, <<>>, "FileNotFoundError", d.path))
                         /\ status' = ERROR_STATUS
                         /\ pc' = At("error", pc.job, 0, files)
                    ELSE /\ pc' = At("files", pc.job, 1, files)
                         /\ status' = "Starte"
                         /\ events' = events
    /\ UNCHANGED <<env, sheet_vars, n>>

\* one turn of the loop over the files of a folder
ProcessFile ==
    /\ pc.at = "files"
    /\ pc.file <= Len(pc.files)
    /\ \E fault \in FileFaults :
         \E c \in {process_file([events |-> events, err |-> FALSE], pc.files[pc.file], ensure_output_run_folder(env.jobs[pc.job]), fault)} :
           /\ events' = c.events
           /\ status' = IF c.err THEN ERROR_STATUS ELSE "Verarbeite"
           /\ pc' = Propagate(c.err, At("error", pc.job, pc.file, pc.files), At("files", pc.job, pc.file + 1, pc.files))
    /\ UNCHANGED <<env, sheet_vars, n>>

\* the Tab8 batch that ends run_for_one_input_dir
ProcessTab8InDir ==
    /\ pc.at = "files"
    /\ pc.file > Len(pc.files)
    /\ \E fault \in Tab8Faults :
         \E c \in {process_tab8_in_dir([events |-> events, err |-> FALSE], env.jobs[pc.job], ensure_output_run_folder(env.jobs[pc.job]), fault)} :
           /\ events' = c.events
           /\ status' = IF c.err THEN ERROR_STATUS ELSE IF env.jobs[pc.job].tab8 THEN "Tabelle 8" ELSE status
           /\ pc' = Propagate(c.err, At("error", pc.job, pc.file, pc.files), At("job", pc.job + 1, 0, <<>>))
    /\ UNCHANGED <<env, sheet_vars, n>>

\* the end of run_processing when no job raised
Finish ==
    /\ pc.at = "job"
    /\ pc.job > Len(env.jobs)
    /\ status' = "Fertig."
    /\ pc' = At("done", pc.job, 0, <<>>)
    /\ UNCHANGED <<env, events, sheet_vars, n>>

NextRun == RunProcessing \/ RunForOneInputDir \/ ProcessFile \/ ProcessTab8InDir \/ Finish

SpecRun == InitRun /\ [][NextRun]_vars

IsLayoutPath(path) == path.dir = <<"Layouts">>

SavedFor(file, i) == {j \in 1..(i - 1) : events[j].e = "save" /\ events[j].file = file}

\* C13: when a layout template needed for a file cannot be loaded, no
\* artifact of that file has been saved at the moment of the failure; in
\* particular its _INTERN artifact has not been saved when the external
\* template fails to load.
C13_NoArtifactWhenLayoutFails ==
    \A i \in DOMAIN events :
        (events[i].e = "raise" /\ events[i].role = "load" /\ IsLayoutPath(events[i].path))
            => SavedFor(events[i].file, i) = {}

---------------------------------------------------------------------------
(* The annual ("-JJ") file of table 1: the external artifact is made from  *)
(* a copy of the raw workbook, its footer row taken from the _INTERN sheet *)

\* for every cell whose stripped text contains "(C)opyright" or starts with
\* "Stand:": set_value_merge_safe(ws, r, c, "")
clear_existing_footer_markers(w) ==
    [w EXCEPT !.val =
        [x \in DOMAIN w.val |->
            IF /\ x[1] <= w.max_row /\ x[2] <= w.max_column
               /\ IsStr(w.val[x])
               /\ (Contains(Strip(w.val[x].s), COPYRIGHT) \/ StartsWith(Strip(w.val[x].s), STAND))
            THEN StrV(<<>>) ELSE w.val[x]]]

FormatOf(w, r, c) == IF <<r, c>> \in DOMAIN w.fmt THEN w.fmt[<<r, c>>] ELSE "General"

\* for c in range(1, max_c + 1) of copy_footer_row_from_intern
RECURSIVE CopyFooterCols(_, _, _, _, _, _)
CopyFooterCols(w, w_intern, r_src, r_tgt, c, max_c) ==
    IF c > max_c THEN w
    ELSE IF get_merged_secondary_checker(w, r_tgt, c)
    THEN CopyFooterCols(w, w_intern, r_src, r_tgt, c + 1, max_c)
    ELSE CHOOSE res \in {CopyFooterCols(PutFormat(w1, r_tgt, c, FormatOf(w_intern, r_src, c)),
                                        w_intern, r_src, r_tgt, c + 1, max_c) :
                            w1 \in {set_value_merge_safe(w, r_tgt, c, Value(w_intern, r_src, c))}} : TRUE

copy_footer_row_from_intern(w_target, w_intern, row_shift_up) ==
    LET r_src == _find_copyright_row(w_intern)
    IN  IF r_src = 0 THEN w_target
        ELSE CopyFooterCols(w_target, w_intern, r_src, Max(1, r_src - row_shift_up), 1,
                            Max(w_intern.max_column, w_target.max_column))

\* if re.fullmatch(r"\d{4}", s): s = f"Jahr {s}"
AnnualPeriod(s) == IF Len(s) = 4 /\ AllDigits(s, 1, 4) THEN <<"Jahr", " ">> \o s ELSE s

\* the branch "if is_jj" of process_table1_file, from the raw sheet as
\* loaded and the sheet of the _INTERN workbook
process_table1_annual(w_raw, w_intern) ==
    LET period_text == find_period_text(w_raw, search_rows_default, search_cols_default).text
        stand_text == extract_stand_from_raw(w_raw)
        ws_g == w_raw @@ [fill |-> <<>>]
        w1 == IF Falsy(period_text) THEN ws_g
              ELSE set_value_merge_safe(ws_g, 3, 1, StrV(AnnualPeriod(Strip(period_text.s))))
        locals(foot) == [err |-> foot.ret.err, period_text |-> period_text,
                         stand_text |-> stand_text, intern |-> w_intern]
    IN  CHOOSE res \in {[ws |-> IF foot.ret.err # "none" THEN foot.ws
                                ELSE mark_cells_with_1_or_2(foot.ws, 7, FILL),
                         ret |-> locals(foot)] :
                            foot \in {update_footer_with_stand_and_copyright(
                                          copy_footer_row_from_intern(
                                              clear_existing_footer_markers(w1), w_intern, 2),
                                          stand_text)}} : TRUE

---------------------------------------------------------------------------
(* Specification of the annual file of table 1 *)

\* the raw sheets of annual files: the period cell is in row 3
AnnualRawSheets(k) ==
    {RawSheetWith(3, period, rd, foot, copy) :
        period \in {None, StrV(<<"2", "0", "2", "5">>), StrV(<<"Jahr", " ", "2", "0", "2", "5">>)},
        rd \in 0..k, foot \in BOOLEAN, copy \in BOOLEAN}

InitAnnual ==
    /\ raw \in AnnualRawSheets(MaxData + 1)
    /\ ws \in Layouts
    /\ op = "init"
    /\ pre = NoSheet
    /\ args = <<>>
    /\ ret = "none"
    /\ n = 0
    /\ NoRun

\* ws is the internal layout as loaded; afterwards it is the sheet saved as
\* the external artifact, pre the copy of the raw sheet it was made from
ProcessTable1Annual ==
    /\ op = "init"
    /\ \E intern \in {build_table1_workbook(raw, ws, TRUE)} :
          IF intern.ret.err # "none"
          THEN /\ ws' = intern.ws
               /\ ret' = [err |-> intern.ret.err, period_text |-> intern.ret.period_text,
                          stand_text |-> intern.ret.stand_text, intern |-> intern.ws]
               /\ pre' = ws
               /\ op' = "raised"
          ELSE \E res \in {process_table1_annual(raw, intern.ws)} :
                  /\ ws' = res.ws
                  /\ ret' = res.ret
                  /\ pre' = raw
                  /\ op' = "annual"
    /\ args' = [table_no |-> 1, is_jj |-> TRUE]
    /\ n' = n + 1
    /\ UNCHANGED run_vars
    /\ UNCHANGED raw

NextAnnual == ProcessTable1Annual

SpecAnnual == InitAnnual /\ [][NextAnnual]_vars

\* the cells of the raw sheet that hold the figures
DataCells(w) == {x \in DOMAIN w.val : x[2] >= 2 /\ IsNumber(w.val[x])}

DataRetained == \A x \in DataCells(raw) : Value(ws, x[1], x[2]) = raw.val[x]

IsJahrText(v) == IsStr(v) /\ Len(v.s) = 6 /\ v.s[1] = "Jahr" /\ v.s[2] = " " /\ AllDigits(v.s, 3, 6)

CopyrightRows(w) == {r \in 1..w.max_row : \E c \in 1..w.max_column : IsCopyrightText(Value(w, r, c))}

\* C14: the external artifact of an annual table-1 file is the raw sheet
\* with every data cell retained, its period cell (row 3, column A) reads
\* "Jahr <YYYY>", and it holds exactly one as-of stamp and exactly one
\* copyright row.
C14_AnnualArtifact ==
    (op = "annual" /\ ret.err = "none")
        => /\ DataRetained
           /\ IsJahrText(Value(ws, 3, 1))
           /\ Cardinality(Stamps(ws)) = 1
           /\ Cardinality(CopyrightRows(ws)) = 1

---------------------------------------------------------------------------
(* Properties of a run's loads, writes and saves *)

Range(f) == {f[i] : i \in DOMAIN f}

\* the raw files of all the folders of the run
RawPaths == UNION {Range(find_raw_files(env.jobs[j])) : j \in DOMAIN env.jobs}

\* the objects loaded as a raw source: load_workbook(raw_path, data_only=True)
RawSources == {events[j].obj : j \in {i \in DOMAIN events : events[i].e = "load" /\ events[i].role = "raw"}}

\* the paths a raw workbook was loaded from, as source or as copy
LoadedRawPaths == {events[j].path : j \in {i \in DOMAIN events : events[i].e = "load" /\ events[i].role \in {"raw", "rawcopy"}}}

\* the names of the raw workbooks loaded for the file of save event i
RawNamesOf(i) ==
    {events[j].path.name : j \in {k \in DOMAIN events :
        events[k].e = "load" /\ events[k].role \in {"raw", "rawcopy"} /\ events[k].file = events[i].file}}

NameWithEnding(name, ending) == [name EXCEPT !.suffix = @ \o <<ending>>]

\* C15 as stated: no workbook loaded as the raw source is written, no save
\* goes to the path of a raw file, and every save path is the name of the
\* raw file followed by "_INTERN" or "_g".
C15_RawInputNeverMutated ==
    \A i \in DOMAIN events :
        /\ events[i].e = "write" => events[i].obj \notin RawSources
        /\ events[i].e = "save" =>
              /\ events[i].path \notin RawPaths \cup LoadedRawPaths
              /\ \E ending \in {"_INTERN", "_g"} : \E name \in RawNamesOf(i) :
                     events[i].path.name = NameWithEnding(name, ending)

\* C15, amended: no workbook loaded as the raw source is written and no
\* save goes to the path of a raw file; the artifacts of tables 1, 2, 3 and
\* 5 bear the name of their raw file followed by "_INTERN" or "_g", the
\* artifact of table 8 the name "Tabelle-8-Land_<token>_g", which is the
\* name of none of its parts.
C15_RawFilesNeverWritten ==
    \A i \in DOMAIN events :
        /\ events[i].e = "write" => events[i].obj \notin RawSources
        /\ events[i].e = "save" =>
              /\ events[i].path \notin RawPaths \cup LoadedRawPaths
              /\ IF events[i].file.name.table \in PREFIX_TO_TABLE
                 THEN /\ RawNamesOf(i) = {events[i].file.name}
                      /\ \E ending \in {"_INTERN", "_g"} :
                             events[i].path.name = NameWithEnding(events[i].file.name, ending)
                 ELSE /\ events[i].path.name = NameWithEnding(Tab8Name(8), "_g")
                      /\ RawNamesOf(i) = {Tab8Name(TAB8_PARTS[k]) : k \in DOMAIN TAB8_PARTS}

\* an annual table-1 file was processed in a folder that is its own output
\* folder and that also holds artifacts of an earlier run: the copy of the
\* raw workbook was written and saved beside the raw file
C15_Witness ==
    \E i \in DOMAIN events :
        /\ events[i].e = "save"
        /\ events[i].path.dir = events[i].file.dir
        /\ \E j \in DOMAIN events :
              /\ events[j].e = "load" /\ events[j].role = "rawcopy"
              /\ events[j].obj = events[i].obj
              /\ \E k \in DOMAIN events : events[k].e = "write" /\ events[k].obj = events[i].obj
        /\ \E d \in Range(env.jobs) : \E f \in d.listing : ~IsRawName(f)
        /\ \E m \in DOMAIN events : events[m].e = "save" /\ events[m].file.name.table = 8

Saves == {i \in DOMAIN events : events[i].e = "save"}

\* the load event that made the object saved by event i
LoadOf(i) == CHOOSE j \in DOMAIN events : events[j].e = "load" /\ events[j].obj = events[i].obj

\* the _g artifact of an annual file of kind 2, 3 or 5
IsAnnualCopy(i) ==
    /\ is_jj(events[i].file)
    /\ events[i].file.name.table \in {2, 3, 5}
    /\ EndsWith(events[i].path.name.suffix, "_g")

Raised == \E i \in DOMAIN events : events[i].e = "raise"

\* C17: once processing raises, the run is in its error state for good:
\* the status line reports the error and never "Fertig.", no further file
\* or job is taken up, nothing more is loaded, written or saved, the
\* failed step is not tried again, and what was saved before is still
\* recorded as saved.
C17_AbortOnFirstFailure ==
    /\ [](Raised => (/\ pc.at = "error"
                     /\ status = ERROR_STATUS
                     /\ events[Len(events)].e = "raise"
                     /\ Cardinality({i \in DOMAIN events : events[i].e = "raise"}) = 1))
    /\ [][Raised => UNCHANGED <<events, pc, status>>]_vars
    /\ [][Len(events') >= Len(events) /\ SubSeq(events', 1, Len(events)) = events]_vars

\* a file failed after an artifact had been saved, and a later file of the
\* folder or a later job was still to come
C17_Witness ==
    /\ Raised
    /\ Saves # {}
    /\ pc.at = "error"
    /\ (pc.file < Len(pc.files) \/ pc.job < Len(env.jobs))

---------------------------------------------------------------------------
(* Specification of building the same output a second time *)

\* the workbooks of the first build kept instead of loaded anew
keep_in_memory(as_loaded, current) == current

\* openpyxl.load_workbook(path) at the start of a build: the workbook as it
\* is on disk, whatever an earlier build did to the one it had loaded
load_again(as_loaded, current) == as_loaded

\* the builder is called again with the arguments of the first build; ws is
\* the second output, ret.first and ret.first_ret what the first build left
Rebuild ==
    /\ op = "build"
    /\ \E w_raw \in {load_again(raw, ws)} :
       \E layout \in {load_again(ret.layout, IF args.table_no = 5 THEN ret.sheets ELSE ws)} :
          \E res \in {IF args.table_no = 1
                      THEN build_table1_workbook(w_raw, layout, args.internal_layout)
                      ELSE IF args.table_no \in {2, 3}
                      THEN build_table2_3_workbook(args.table_no, w_raw, layout, args.internal_layout)
                      ELSE build_table5_workbook(w_raw, layout, args.internal_layout, args.is_jj)} :
              /\ ws' = res.ws
              /\ ret' = [first |-> ws, first_ret |-> ret, second_ret |-> res.ret]
    /\ op' = "rebuild"
    /\ n' = n + 1
    /\ UNCHANGED run_vars
    /\ UNCHANGED <<raw, pre, args>>

NextRebuild == BuildTable1 \/ BuildTable2_3 \/ BuildTable5 \/ Rebuild

SpecRebuild == InitOutput /\ [][NextRebuild]_vars

---------------------------------------------------------------------------
(* Specification of the detection of the data block and the footer *)

DRows == 3
DCols == 3
MaxMarks == 2

\* a footnote line, the copyright text, the label "Total", a number, the
\* sentinel "-", digits as text, any other text
DetectValues ==
    {StrV(<<" ", "-", "x">>), OldCopyright, StrV(<<"Total">>), IntV(5),
     StrV(<<"-">>), StrV(<<"1", "2">>), StrV(<<"x">>)}

InitDetect ==
    /\ ws \in {PlainSheet(DRows, DCols, f) :
                  f \in Fillings((1..DRows) \X (1..DCols), DetectValues, MaxMarks)}
    /\ raw = NoSheet
    /\ op = "init"
    /\ pre = NoSheet
    /\ args = <<>>
    /\ ret = "none"
    /\ n = 0
    /\ NoRun

DetectTab1 ==
    /\ op = "init"
    /\ ret' = detect_data_and_footer_tab1(ws)
    /\ args' = [first_col |-> 2]
    /\ op' = "detect"
    /\ pre' = ws
    /\ n' = n + 1
    /\ UNCHANGED run_vars
    /\ UNCHANGED <<ws, raw>>

DetectTab2_3 ==
    /\ op = "init"
    /\ ret' = detect_data_and_footer_tab2_3(ws)
    /\ args' = [first_col |-> 3]
    /\ op' = "detect"
    /\ pre' = ws
    /\ n' = n + 1
    /\ UNCHANGED run_vars
    /\ UNCHANGED <<ws, raw>>

NextDetect == DetectTab1 \/ DetectTab2_3

SpecDetect == InitDetect /\ [][NextDetect]_vars

FootnoteRows(w) == {r \in 1..w.max_row : IsStr(Value(w, r, 1)) /\ StartsWith(Strip(Value(w, r, 1).s), "-")}

\* C19: the footer start is the first row whose column A text starts with
\* "-"; without such a row it is the copyright row; without either it is
\* max_row + 1.
C19_FooterStart ==
    op = "detect" =>
        ret[2] = (IF FootnoteRows(ws) # {} THEN MinOf(FootnoteRows(ws), 0)
                  ELSE IF _find_copyright_row(ws) # 0 THEN _find_copyright_row(ws)
                  ELSE ws.max_row + 1)

TotalRows(w) == {r \in 1..w.max_row : IsStr(Value(w, r, 1)) /\ Strip(Value(w, r, 1).s) = <<"Total">>}

\* a genuine number or the sentinel "-" / "X"
NumberOrSentinel(v) == IsNumber(v) \/ IsSentinel(v)

NumericRows(w, first_col) == {r \in 1..w.max_row : \E c \in first_col..w.max_column : NumberOrSentinel(Value(w, r, c))}

\* C20: the first data row is the first row whose label column holds
\* "Total"; without such a row it is the first row with a number or a
\* sentinel in column 2 (kinds 2/3: column 3) or further right; it is 1
\* when nothing matches, and never less than 1.
C20_FirstDataRow ==
    op = "detect" =>
        /\ ret[1] >= 1
        /\ ret[1] = (IF TotalRows(ws) # {} THEN MinOf(TotalRows(ws), 0)
                     ELSE MinOf(NumericRows(ws, args.first_col), 1))

---------------------------------------------------------------------------
(* Table 5: the rows a block may reach in its worksheet *)

\* the first footnote or copyright row of a layout worksheet, max_row + 1
\* when it has neither
LayoutFooterStart(w) ==
    MinOf(FootnoteRows(w) \cup {r \in 1..w.max_row : IsCopyrightText(Value(w, r, 1))},
          w.max_row + 1)

\* the first row of a layout worksheet with a number in column C, 0 if none
first_data_out(w) == MinOf({r \in 1..w.max_row : is_numeric_like(Value(w, r, 3))}, 0)

\* C22: in table 5 a block writes, from its first data row on, no worksheet
\* row whose raw row lies behind the block's last non-empty row, and no row
\* at or below the worksheet's first footnote or copyright row; worksheets
\* without a block and blocks without a worksheet produce no writes.
C22_Table5RowsBounded ==
    (op = "build" /\ args.table_no = 5) =>
        /\ Len(ret.sheets) = Len(ret.layout)
        /\ \A i \in 1..Len(ret.sheets) :
              IF i > Len(ret.blocks)
              THEN ret.sheets[i] = ret.layout[i]
              ELSE \A x \in DOMAIN ret.layout[i].val :
                      (/\ x[1] >= first_data_out(ret.layout[i])
                       /\ \/ ret.blocks[i][1] + (x[1] - first_data_out(ret.layout[i]))
                                > ret.blocks[i][2]
                          \/ x[1] >= LayoutFooterStart(ret.layout[i]))
                          => ret.filled[i].val[x] = ret.layout[i].val[x]

---------------------------------------------------------------------------
(* Table 8: one layout worksheet filled from one raw part *)

TITLE_NO == "8."

TITLE_WORD == "Unternehmensinsolvenzen"

SCHL_NR == "Schl.-Nr."

\* the characters a separator row is made of: the em dash, "-" and "_"
SEPARATORS == {"EM DASH", "-", "_"}

\* isinstance(v, str) and v.strip() and all(ch in SEPARATORS for ch in v.strip())
IsSeparator(v) ==
    /\ IsStr(v)
    /\ Strip(v.s) # <<>>
    /\ \A i \in 1..Len(Strip(v.s)) : Strip(v.s)[i] \in SEPARATORS

\* "schl" in s and "nr" in s, for the lower-cased text of a string cell
IsKeyHeader(v) == IsStr(v) /\ Contains(v.s, SCHL_NR)

\* isinstance(v, str) and v.strip().isdigit()
IsDigitText(v) ==
    IsStr(v) /\ Strip(v.s) # <<>> /\ AllDigits(Strip(v.s), 1, Len(Strip(v.s)))

\* isinstance(v, (int, float)) or a text of digits
IsKey(v) == IsNumber(v) \/ IsDigitText(v)

\* int(v) in (25, 26, 27, 28), for a number or a text of digits
IsPartMarker(v) ==
    IF IsNumber(v)
    THEN (IF v.k = "float" THEN truncate(v.n) ELSE v.n) \in {25, 26, 27, 28}
    ELSE LET t == Strip(v.s)
             nz == {i \in 1..Len(t) : t[i] # "0"}
         IN  /\ nz # {}
             /\ SubSeq(t, MinOf(nz, 1), Len(t))
                   \in {<<"2", "5">>, <<"2", "6">>, <<"2", "7">>, <<"2", "8">>}

tab8_find_title_cell(w_raw) ==
    LET hits == {r \in 1..24 :
                    LET v == Value(w_raw, r, 1)
                    IN  /\ IsStr(v)
                        /\ StartsWith(Strip(v.s), TITLE_NO)
                        /\ Contains(v.s, TITLE_WORD)}
    IN  IF hits # {} THEN Value(w_raw, MinOf(hits, 0), 1)
        ELSE IF IsStr(Value(w_raw, 3, 1)) THEN Value(w_raw, 3, 1) ELSE None

\* <<first, last, footer>>
tab8_detect_data_block(w_raw) ==
    LET footer == MaxOf({r \in 1..w_raw.max_row : IsSeparator(Value(w_raw, r, 1))},
                        w_raw.max_row + 1)
        header_row == MinOf({r \in 1..Min(w_raw.max_row, 80) :
                                IsKeyHeader(Value(w_raw, r, 1))}, 0)
        start_scan == IF header_row # 0 THEN header_row + 1 ELSE 1
        keys == {r \in start_scan..(Min(footer, w_raw.max_row + 1) - 1) :
                    /\ IsKey(Value(w_raw, r, 1))
                    /\ ~(header_row = 0 /\ r <= 3 /\ IsPartMarker(Value(w_raw, r, 1)))}
        first == MinOf(keys, IF header_row # 0 THEN header_row + 1 ELSE 1)
    IN  <<first, Max(first, footer - 1), footer>>

\* the first row whose column A text starts with "-", 0 for None
tab8_find_footnote_start(w_out) ==
    MinOf({r \in 1..w_out.max_row :
              /\ IsStr(Value(w_out, r, 1))
              /\ StartsWith(Strip(Value(w_out, r, 1).s), "-")}, 0)

\* the end (exclusive) of the layout's data block that starts at f_out
data_end_out(w_out, f_out) ==
    LET footnote_start == tab8_find_footnote_start(w_out)
        copyright_row == MaxOf(CopyrightRows(w_out), 0)
        sep_row == MaxOf({r \in 1..w_out.max_row : IsSeparator(Value(w_out, r, 1))}, 0)
        ends == {footnote_start, copyright_row, sep_row} \ {0}
        e == MinOf(ends, w_out.max_row + 1)
    IN  IF e <= f_out THEN w_out.max_row + 1 ELSE e

\* for rr in range(f_out, end): for cc in range(1, max_data_col + 1): the
\* cell is set to None unless it is a secondary cell of a merge range
clear_tab8_block(w_out, f_out, end, max_data_col) ==
    IF end <= f_out THEN w_out
    ELSE LET w == Grow(w_out, end - 1, max_data_col)
         IN  [w EXCEPT !.val =
                 [x \in DOMAIN w.val |->
                     IF /\ f_out <= x[1] /\ x[1] < end /\ x[2] <= max_data_col
                        /\ ~get_merged_secondary_checker(w, x[1], x[2])
                     THEN None ELSE w.val[x]]]

\* ws_raw is the worksheet of the raw part; the function returns the
\* worksheet it leaves and the locals
fill_tab8_sheet(w_out, w_raw, max_data_col) ==
    LET title == tab8_find_title_cell(w_raw)
        w1 == IF NonEmpty(title) THEN set_value_merge_safe(w_out, 3, 1, title) ELSE w_out
        w2 == set_value_merge_safe(w1, 1, 1, None)
        det == tab8_detect_data_block(w_raw)
        f_out == MinOf({r \in 1..w2.max_row : IsKey(Value(w2, r, 1))}, det[1])
        Copy(w3, end) ==
            [ws |-> Transcribe(w3, w_raw, det[1], f_out,
                               Max(0, Min(det[2] - det[1] + 1, end - f_out)),
                               1, max_data_col, 0),
             ret |-> [f_raw |-> det[1], l_raw |-> det[2], f_out |-> f_out,
                      data_end_out |-> end, max_data_col |-> max_data_col,
                      headed |-> w2]]
    IN  CHOOSE res \in {Copy(clear_tab8_block(w, f, end, max_data_col), end) :
                           w \in {w2}, f \in {f_out},
                           end \in {data_end_out(w2, f_out)}} : TRUE

---------------------------------------------------------------------------
(* Transcription into layouts with a merge range in or next to the data
   block, for tables 1, 2, 3, 5 and 8 *)

\* the sheet with the key r in column A of the rows first..last
KeyedColumnA(w, first, last) ==
    [w EXCEPT !.val = [x \in DOMAIN w.val |->
                          IF x[2] = 1 /\ first <= x[1] /\ x[1] <= last
                             /\ ~IsMergedCell(w, x[1], x[2])
                          THEN IntV(x[1]) ELSE w.val[x]]]

\* one merge range within the last header row and the two rows below it,
\* columns A to D, or none
SkipMerges ==
    {{}} \cup {{<<rg[1] + HeaderRows - 1, rg[2], rg[3] + HeaderRows - 1, rg[4]>>} :
                  rg \in Rectangles(3, 4)}

SkipLayouts ==
    {KeyedColumnA(LayoutSheetOf(WCols, td, TRUE, TRUE, StrV(<<"h">>), IntV(0), m),
                  HeaderRows + 1, HeaderRows + td) :
        td \in 1..WData, m \in SkipMerges}

SkipRawSheets ==
    UNION {{KeyedColumnA(WideRawSheet(rd, nb, TRUE, 0),
                         RawHeaderRows + 1, RawHeaderRows + rd) : nb \in 0..rd} :
              rd \in 1..WData}

InitSkip ==
    /\ raw \in SkipRawSheets
    /\ ws \in SkipLayouts
    /\ op = "init"
    /\ pre = NoSheet
    /\ args = <<>>
    /\ ret = "none"
    /\ n = 0
    /\ NoRun

\* ws is the layout worksheet, raw the worksheet of the raw part
FillTab8Sheet ==
    /\ op = "init"
    /\ \E max_data_col \in {13, 14} :
          \E res \in {fill_tab8_sheet(ws, raw, max_data_col)} :
              /\ ws' = res.ws
              /\ ret' = res.ret
              /\ args' = [table_no |-> 8, max_data_col |-> max_data_col]
    /\ pre' = ws
    /\ op' = "fill_tab8"
    /\ n' = n + 1
    /\ UNCHANGED run_vars
    /\ UNCHANGED raw

NextSkip == BuildTable1 \/ BuildTable2_3 \/ BuildTable5 \/ FillTab8Sheet

SpecSkip == InitSkip /\ [][NextSkip]_vars

\* Rows first..(first + nr - 1) of the sheet were filled, columns c1..c2,
\* from the raw rows raw_first on: the anchor of every merge range holds the
\* raw value of its own coordinate when it lies in that block and the value
\* it had otherwise, and no other cell of a merge range holds anything.
AnchorsKeepOwn(before, after, first, nr, raw_first, c1, c2, cleared) ==
    \A rg \in before.merged :
        /\ after.val[<<rg[1], rg[2]>>] =
              IF /\ first <= rg[1] /\ rg[1] < first + nr
                 /\ c1 <= rg[2] /\ rg[2] <= c2
              THEN Value(raw, raw_first + (rg[1] - first), rg[2])
              ELSE IF <<rg[1], rg[2]>> \in cleared THEN None
              ELSE before.val[<<rg[1], rg[2]>>]
        /\ \A x \in DOMAIN after.val :
              IsMergedCell(before, x[1], x[2]) => after.val[x] = None

\* the rows of worksheet i that the block of table 5 reaches
Rows5(i) ==
    Min(ret.blocks[i][2] - ret.blocks[i][1] + 1,
        ret.layout[i].max_row - first_data_out(ret.layout[i]) + 1)

\* the rows of the worksheet that the raw part of table 8 reaches
Rows8 == Max(0, Min(ret.l_raw - ret.f_raw + 1, ret.data_end_out - ret.f_out))

\* C23: a raw value whose target is a non-anchor member of a merge range of
\* the layout is skipped: after the transcription of tables 1, 2, 3, 5 and 8
\* the anchor of every merge range in the data block holds the raw value of
\* the anchor's own coordinate, never the value meant for another member.
C23_SecondarySkipped ==
    /\ (op = "build" /\ args.table_no \in {1, 2, 3}) =>
          AnchorsKeepOwn(ret.headed, ret.transcribed, ret.fdr_out, ret.n_rows,
                         ret.fdr_raw, ret.start_col, ret.headed.max_column, {})
    /\ (op = "build" /\ args.table_no = 5) =>
          \A i \in 1..Min(Len(ret.sheets), Len(ret.blocks)) :
              first_data_out(ret.layout[i]) # 0 =>
                  AnchorsKeepOwn(ret.layout[i], ret.filled[i],
                                 first_data_out(ret.layout[i]), Rows5(i),
                                 ret.blocks[i][1], 3,
                                 IF args.internal_layout \/ args.is_jj THEN 10 ELSE 8,
                                 {})
    /\ op = "fill_tab8" =>
          AnchorsKeepOwn(ret.headed, ws, ret.f_out, Rows8, ret.f_raw, 1,
                         ret.max_data_col,
                         {x \in DOMAIN ws.val :
                             /\ ret.f_out <= x[1] /\ x[1] < ret.data_end_out
                             /\ x[2] <= ret.max_data_col})

\* a merge range of two columns lies in the filled rows: its anchor holds
\* the raw value of its own coordinate, which is not the one of the
\* coordinate to its right
SkippedIn(before, after, first, nr, raw_first) ==
    \E rg \in before.merged :
        /\ first <= rg[1] /\ rg[1] < first + nr
        /\ rg[4] > rg[2]
        /\ after.val[<<rg[1], rg[2]>>] = Value(raw, raw_first + (rg[1] - first), rg[2])
        /\ Value(raw, raw_first + (rg[1] - first), rg[2])
              # Value(raw, raw_first + (rg[1] - first), rg[2] + 1)

C23_Witness ==
    /\ op = "fill_tab8"
    /\ SkippedIn(ret.headed, ws, ret.f_out, Rows8, ret.f_raw)

---------------------------------------------------------------------------
(* The two artifacts of one raw file, as their worksheets are when saved *)

\* the worksheets a workbook holds when it is handed over
saved_at_end(at_save, at_end) == at_end

\* wb.save(path): the file holds the worksheets as they are at the call,
\* whatever is done to the workbook afterwards
saved_at_call(at_save, at_end) == at_save

\* for annual files of tables 2, 3 and 5: A1 is cleared and the marker
\* column is marked, in the worksheet already saved as _INTERN
annual_from_intern(w, col_index) ==
    mark_cells_with_1_or_2([w @@ [fill |-> <<>>] EXCEPT !.val[<<1, 1>>] = None],
                           col_index, FILL)

\* wb_i and wb_g of process_table1_file, as saved.  The builder is applied
\* in one place to both layouts; the build of the external layout is used
\* only where the code makes it.
artifacts_table1(w_raw, layout_i, layout_g, jj) ==
    LET Pair(bi, g, err) ==
            [intern |-> <<saved_at_call(bi.ws, bi.ws)>>, g |-> <<g>>, err |-> err,
             filled |-> 1, marker_col |-> 7]
        External(bi, bg) ==
            IF bi.ret.err # "none" THEN Pair(bi, bi.ws, bi.ret.err)
            ELSE IF jj
            THEN CHOOSE res \in {Pair(bi, a.ws, a.ret.err) :
                                    a \in {process_table1_annual(w_raw, bi.ws)}} : TRUE
            ELSE Pair(bi, bg.ws, bg.ret.err)
    IN  CHOOSE res \in
            UNION {{External(pi[2], pg[2]) :
                       pi \in {x \in both : x[1]}, pg \in {x \in both : ~x[1]}} :
                      both \in {{<<internal_layout,
                                   build_table1_workbook(
                                       w_raw, IF internal_layout THEN layout_i ELSE layout_g,
                                       internal_layout)>> :
                                    internal_layout \in BOOLEAN}}} : TRUE

\* wb_i and wb_g of process_table2_or_3_file, as saved
artifacts_table2_3(table_no, w_raw, layout_i, layout_g, jj) ==
    LET Pair(bi, g, at_end, err) ==
            [intern |-> <<saved_at_call(bi.ws, at_end)>>, g |-> <<g>>, err |-> err,
             filled |-> 1, marker_col |-> 5]
        External(bi, bg) ==
            IF bi.ret.err # "none" THEN Pair(bi, bi.ws, bi.ws, bi.ret.err)
            ELSE IF jj
            THEN CHOOSE res \in {Pair(bi, a, a, "none") :
                                    a \in {annual_from_intern(bi.ws, 5)}} : TRUE
            ELSE Pair(bi, bg.ws, bi.ws, bg.ret.err)
    IN  CHOOSE res \in
            UNION {{External(pi[2], pg[2]) :
                       pi \in {x \in both : x[1]}, pg \in {x \in both : ~x[1]}} :
                      both \in {{<<internal_layout,
                                   build_table2_3_workbook(
                                       table_no, w_raw,
                                       IF internal_layout THEN layout_i ELSE layout_g,
                                       internal_layout)>> :
                                    internal_layout \in BOOLEAN}}} : TRUE

\* wb_i and wb_g of process_table5_file, as saved; the layouts are the
\* sequences of the worksheets of the two layout workbooks
artifacts_table5(w_raw, layout_i, layout_g, jj) ==
    LET Pair(bi, g, at_end, err) ==
            [intern |-> saved_at_call(bi.ret.sheets, at_end), g |-> g, err |-> err,
             filled |-> Min(Len(bi.ret.sheets), Len(bi.ret.blocks)), marker_col |-> 6]
        External(bi, bg) ==
            IF bi.ret.err # "none" THEN Pair(bi, bi.ret.sheets, bi.ret.sheets, bi.ret.err)
            ELSE IF jj
            THEN CHOOSE res \in {Pair(bi, a, a, "none") :
                                    a \in {[k \in DOMAIN bi.ret.sheets |->
                                               annual_from_intern(bi.ret.sheets[k], 6)]}} :
                     TRUE
            ELSE Pair(bi, bg.ret.sheets, bi.ret.sheets, bg.ret.err)
    IN  CHOOSE res \in
            UNION {{External(pi[2], pg[2]) :
                       pi \in {x \in both : x[1]}, pg \in {x \in both : ~x[1]}} :
                      both \in {{<<internal_layout,
                                   build_table5_workbook(
                                       w_raw, IF internal_layout THEN layout_i ELSE layout_g,
                                       internal_layout, jj)>> :
                                    internal_layout \in BOOLEAN}}} : TRUE

\* the raw sheet with v in columns E, F and G of its first data row and a 3
\* in those of the other data rows
WithMarkers(w, rd, v) ==
    [w EXCEPT !.val = [x \in DOMAIN w.val |->
                          IF x[2] \in {5, 6, 7} /\ x[1] > RawHeaderRows
                             /\ x[1] <= RawHeaderRows + rd
                          THEN (IF x[1] = RawHeaderRows + 1 THEN v ELSE IntV(3))
                          ELSE w.val[x]]]

ArtifactRawSheets ==
    UNION {{WithMarkers(WideRawSheet(rd, nb, TRUE, 0), rd, v) :
               nb \in 0..rd, v \in {IntV(1), IntV(3), FloatV(20), StrV(<<"2">>)}} :
              rd \in 1..WData}

InitArtifacts ==
    /\ raw \in ArtifactRawSheets
    /\ ws \in WideLayouts
    /\ op = "init"
    /\ pre = NoSheet
    /\ args = <<>>
    /\ ret = "none"
    /\ n = 0
    /\ NoRun

\* ws is the worksheet both layouts look like; afterwards it is the first
\* worksheet of the external artifact
ProcessTable1File ==
    /\ op = "init"
    /\ \E jj \in BOOLEAN :
          \E res \in {artifacts_table1(raw, ws, ws, jj)} :
              /\ ws' = res.g[1]
              /\ ret' = res
              /\ args' = [table_no |-> 1, is_jj |-> jj]
    /\ pre' = ws
    /\ op' = "process"
    /\ n' = n + 1
    /\ UNCHANGED run_vars
    /\ UNCHANGED raw

ProcessTable2_3File ==
    /\ op = "init"
    /\ \E table_no \in {2, 3}, jj \in BOOLEAN :
          \E res \in {artifacts_table2_3(table_no, raw, ws, ws, jj)} :
              /\ ws' = res.g[1]
              /\ ret' = res
              /\ args' = [table_no |-> table_no, is_jj |-> jj]
    /\ pre' = ws
    /\ op' = "process"
    /\ n' = n + 1
    /\ UNCHANGED run_vars
    /\ UNCHANGED raw

ProcessTable5File ==
    /\ op = "init"
    /\ \E jj \in BOOLEAN, k \in 1..MaxSheets :
          \E res \in {artifacts_table5(raw, [i \in 1..k |-> ws], [i \in 1..k |-> ws], jj)} :
              /\ ws' = res.g[1]
              /\ ret' = res
              /\ args' = [table_no |-> 5, is_jj |-> jj]
    /\ pre' = ws
    /\ op' = "process"
    /\ n' = n + 1
    /\ UNCHANGED run_vars
    /\ UNCHANGED raw

NextArtifacts == ProcessTable1File \/ ProcessTable2_3File \/ ProcessTable5File

SpecArtifacts == InitArtifacts /\ [][NextArtifacts]_vars

HasBanner(w) == Value(w, 1, 1) = INTERNAL_HEADER_TEXT

\* the fill of a cell of a saved worksheet; a worksheet no cell of which
\* was ever styled has none
SavedFill(w, x) == IF "fill" \in DOMAIN w THEN FillOf(w, x) ELSE NO_FILL

NoHighlights(w) == \A x \in DOMAIN w.val : SavedFill(w, x) = NO_FILL

\* a is i but for the cleared A1 and the fill of the cells of the marker
\* column that hold 1 or 2
AnnualOf(a, i, col_index) ==
    /\ a.max_row = i.max_row /\ a.max_column = i.max_column
    /\ a.merged = i.merged /\ a.fmt = i.fmt
    /\ \A x \in DOMAIN i.val :
          /\ a.val[x] = (IF x = <<1, 1>> THEN None ELSE i.val[x])
          /\ SavedFill(a, x) = (IF x[2] = col_index /\ IsOneOrTwo(i.val[x])
                                THEN FILL ELSE NO_FILL)

\* what the claim says of the external artifact and of the worksheets
\* 1..k of the internal one
ArtifactsAsClaimed(k) ==
    /\ \A j \in 1..k : HasBanner(ret.intern[j]) /\ NoHighlights(ret.intern[j])
    /\ \A j \in DOMAIN ret.g : ~HasBanner(ret.g[j])
    /\ (args.is_jj /\ args.table_no \in {2, 3, 5}) =>
          /\ Len(ret.g) = Len(ret.intern)
          /\ \A j \in DOMAIN ret.g : AnnualOf(ret.g[j], ret.intern[j], ret.marker_col)

---------------------------------------------------------------------------
(* Table 8: the stamp of the four worksheets of one period *)

\* the cells whose text contains "Stand:", each as the top-left cell of its
\* merge range when it lies in one
tab8_scan_stand_cells(w) ==
    {IF _merged_top_left(w, x[1], x[2]) # <<>> THEN _merged_top_left(w, x[1], x[2])
     ELSE x :
        x \in {y \in Cells(w) : HasStand(Value(w, y[1], y[2]))}}

\* the cell that is set, whatever it held before, without a look at the
\* other cells
tab8_set_stand(w, stand_row, stand_col, stand) ==
    [ws |-> set_value_merge_safe(w, stand_row, stand_col, StrV(<<STAND, " ">> \o stand)),
     ret |-> <<stand_row, stand_col>>]

\* returns the worksheet it leaves and (rr, cc); the style taken over from
\* ref_cell is left out, no value depends on it
tab8_normalize_stand(w, stand_row, stand_col, stand) ==
    LET tl == _merged_top_left(w, stand_row, stand_col)
        keep == IF tl # <<>> THEN tl ELSE <<stand_row, stand_col>>
        others == tab8_scan_stand_cells(w) \ {keep}
        w1 == [w EXCEPT !.val = [x \in DOMAIN w.val |->
                                    IF x \in others THEN StrV(<<>>) ELSE w.val[x]]]
    IN  [ws |-> set_value_merge_safe(w1, stand_row, stand_col,
                                     StrV(<<STAND, " ">> \o stand)),
         ret |-> keep]

\* returns the worksheet it leaves and the cell of the stamp, <<>> for None
tab8_update_footer(w, stand) ==
    LET crow == MaxOf(CopyrightRows(w), 0)
        ccol == MinOf({c \in 1..w.max_column : IsCopyrightText(Value(w, crow, c))}, 0)
        w1 == IF crow = 0 THEN w
              ELSE PutValue(w, crow, ccol,
                            StrV(sub_copyright_year(Value(w, crow, ccol).s, 1)))
        srow == MaxOf({r \in 1..w1.max_row :
                          \E c \in 1..w1.max_column : HasStand(Value(w1, r, c))}, 0)
        scol == MaxOf({c \in 1..w1.max_column : HasStand(Value(w1, srow, c))}, 0)
    IN  IF srow = 0 THEN [ws |-> w1, ret |-> <<>>]
        ELSE [ws |-> PutValue(w1, srow, scol, StrV(<<STAND, " ">> \o stand)),
              ret |-> <<srow, scol>>]

\* What process_tab8_in_dir does for one period with the worksheets 25..28
\* of the layout workbook and the worksheets of the four raw parts: every
\* worksheet is filled, filled again with its footer updated, and then the
\* stamp is normalised from the first worksheet.
process_tab8_period(wb_out, parts, kind, stand) ==
    LET max_col == IF kind = "jj" THEN 14 ELSE 13
        Normalised(sheets) ==
            LET stand_cells == tab8_scan_stand_cells(sheets[1])
                stand_row == MaxOf({x[1] : x \in stand_cells}, 0)
            IN  [sheets |-> IF stand_cells = {} THEN sheets
                            ELSE [k \in DOMAIN sheets |->
                                     tab8_normalize_stand(sheets[k], stand_row, max_col,
                                                          stand).ws],
                 normalized |-> stand_cells # {}, stand_row |-> stand_row,
                 max_col |-> max_col, updated |-> sheets]
        Second(first) ==
            [k \in DOMAIN first |->
                tab8_update_footer(fill_tab8_sheet(first[k], parts[k], max_col).ws,
                                   stand).ws]
    IN  CHOOSE res \in
            {Normalised(second) :
                second \in {Second(first) :
                               first \in {[k \in DOMAIN wb_out |->
                                             fill_tab8_sheet(wb_out[k], parts[k],
                                                             max_col).ws]}}} : TRUE

\* a layout worksheet of table 8, cols wide: the title in A3, the key header
\* in A4, two data rows, a footnote row and the copyright row; the stamps
\* are in the given columns of the copyright row, and in the last column of
\* the footnote row when above is set
Tab8Layout(cols, stamp_cols, above, m) ==
    LET w0 == [val |-> <<>>, fmt |-> <<>>, merged |-> m, max_row |-> 8,
               max_column |-> cols]
        content(x) ==
            IF x = <<3, 1>> THEN StrV(<<TITLE_NO, " ", TITLE_WORD>>)
            ELSE IF x = <<4, 1>> THEN StrV(<<SCHL_NR>>)
            ELSE IF x[1] \in {5, 6} THEN (IF x[2] = 1 THEN IntV(x[1]) ELSE IntV(0))
            ELSE IF x[1] = 7
            THEN (IF x[2] = 1 THEN StrV(<<"-", "x">>)
                  ELSE IF above /\ x[2] = cols THEN OldStamp ELSE None)
            ELSE IF x[1] = 8
            THEN (IF x[2] = 1 THEN OldCopyright
                  ELSE IF x[2] \in stamp_cols THEN OldStamp ELSE None)
            ELSE None
    IN  [w0 EXCEPT
            !.val = [x \in (1..8) \X (1..cols) |->
                        IF IsMergedCell(w0, x[1], x[2]) THEN None ELSE content(x)],
            !.fmt = [x \in (1..8) \X (1..cols) |-> "General"]]

\* the merge ranges tried around the stamp: none, the last two cells of the
\* copyright row, or the last cells of the footnote and the copyright row
Tab8Layouts ==
    UNION {{Tab8Layout(cols, stamp_cols, above, m) :
               stamp_cols \in {{}, {cols}, {cols - 1}, {2, cols}},
               above \in BOOLEAN,
               m \in {{}, {<<8, cols - 1, 8, cols>>}, {<<7, cols, 8, cols>>}}} :
              cols \in {13, 14}}

\* a raw part of table 8: the number of the part in A1, the title, the key
\* header (or none), rd data rows, a separator row and the stamp
Tab8RawSheet(rd, header) ==
    LET content(x) ==
            IF x = <<1, 1>> THEN IntV(25)
            ELSE IF x = <<3, 1>> THEN StrV(<<TITLE_NO, " ", TITLE_WORD, " ", "n">>)
            ELSE IF x = <<4, 1>> /\ header THEN StrV(<<SCHL_NR>>)
            ELSE IF x[1] > 4 /\ x[1] <= 4 + rd
            THEN (IF x[2] = 1 THEN StrV(<<"1", Letters[x[1]]>>)
                  ELSE IntV(100 * x[1] + x[2]))
            ELSE IF x = <<5 + rd, 1>> THEN StrV(<<"_", "_">>)
            ELSE IF x = <<6 + rd, 1>> THEN OldStamp
            ELSE None
    IN  [val |-> [x \in (1..(6 + rd)) \X (1..14) |-> content(x)],
         fmt |-> [x \in (1..(6 + rd)) \X (1..14) |-> "General"],
         merged |-> {}, max_row |-> 6 + rd, max_column |-> 14]

InitStand ==
    /\ raw \in {Tab8RawSheet(1, TRUE), Tab8RawSheet(2, FALSE)}
    /\ ws \in Tab8Layouts
    /\ op = "init"
    /\ pre = NoSheet
    /\ args = <<>>
    /\ ret = "none"
    /\ n = 0
    /\ NoRun

\* the date of the stamp, dd.mm.yyyy
STAND_DATE == <<"n">>

NormalizeStand ==
    /\ op = "init"
    /\ \E stand_row \in 1..ws.max_row, stand_col \in {1, ws.max_column - 1, ws.max_column} :
          \E res \in {tab8_normalize_stand(ws, stand_row, stand_col, STAND_DATE)} :
              /\ ws' = res.ws
              /\ ret' = res.ret
              /\ args' = [stand_row |-> stand_row, stand_col |-> stand_col]
    /\ pre' = ws
    /\ op' = "normalize_stand"
    /\ n' = n + 1
    /\ UNCHANGED run_vars
    /\ UNCHANGED raw

\* ws is worksheet 25 of the layout workbook, the worksheets 26..28 look
\* like other; raw is the worksheet of each of the four parts
ProcessTab8Period ==
    /\ op = "init"
    /\ \E kind \in {"monat", "jj"} :
       \E other \in {w \in Tab8Layouts : w.max_column = ws.max_column} :
          \E res \in {process_tab8_period(<<ws, other, other, other>>,
                                          <<raw, raw, raw, raw>>, kind, STAND_DATE)} :
              /\ ws' = res.sheets[1]
              /\ ret' = res
              /\ args' = [kind |-> kind, layout |-> <<ws, other, other, other>>]
    /\ pre' = ws
    /\ op' = "process_tab8"
    /\ n' = n + 1
    /\ UNCHANGED run_vars
    /\ UNCHANGED raw

NextStand == NormalizeStand \/ ProcessTab8Period

SpecStand == InitStand /\ [][NextStand]_vars

\* what the claim says of a worksheet after tab8_normalize_stand
OneStampAt(w, cell) ==
    /\ Stamps(w) = {cell}
    /\ w.val[cell] = StrV(<<STAND, " ">> \o STAND_DATE)

=============================================================================
